---------------------------- MODULE Spec2Model ----------------------------
(***************************************************************************)
(* Model of the dataset bookkeeping of single_experiment_runner.py:        *)
(*   - limit_number_patients_per_label   (per-label patient cap)           *)
(*   - do_cross_validation               (patient-level k-fold planner)    *)
(*   - do_training_test / correct_old_runs (test/training-size sweep       *)
(*     planner and the retry loop around the external trainer)             *)
(*                                                                         *)
(* Conventions.  A sample is identified by a tag (x_whole[i]); the mask    *)
(* array is handled by the code exactly like x_whole and is not repeated.  *)
(* Patient ids are positive integers (the code's ids are strings ordered   *)
(* by np.argsort; the initial prev_patient "" is NoPatient).  Indices and  *)
(* boundaries keep their Python (0-based) values: the sample at Python     *)
(* index i is element i + 1 of the TLA+ sequence.  Accuracies are in       *)
(* hundredths (0.7 is 70).                                                 *)
(***************************************************************************)
EXTENDS Integers, Sequences, FiniteSets, TLC

VARIABLES
    pc,                     \* position in the function being modelled
    \* ---- limit_number_patients_per_label
    x_whole,                \* sample tags
    y_whole,                \* labels
    patients_whole,         \* patient ids
    num_patients_per_label, \* cap, or None
    adjacent,               \* keyword argument adjacent
    new_x, new_y, new_patients,   \* returned sequences
    numpatients0, numpatients1,   \* counters returned by the reorderer
    \* ---- planners
    num_patients,           \* number of distinct patients (main, line 2135)
    num_folds,
    folds_indices,
    fold,                   \* loop variable i of the fold loop
    idx0, idx1,             \* test range of the current fold
    num_patients_te,
    num_patients_tr,
    test_data,              \* <<>> for None, else <<patients_t_whole>>
    test_mask_spheres,
    te_idx, te_t_idx, tr_idx,
    err,                    \* exception raised, or "none"
    \* ---- training driver
    func,                   \* "do_training_test" or "correct_old_runs"
    corrections,            \* set of training sizes to redo
    step,                   \* loop variable i of the step loop
    num_times,              \* attempts made in the current step
    aTr,                    \* training accuracy returned by the last attempt
    attempts,               \* accuracies returned by the trainer in this step
    model,                  \* attempt number that produced the current model
    error_file,             \* entries of unknown_error.txt
    error_mark,             \* length of error_file when the step began
    \* ---- main: the experiment grid
    args_correction,        \* args.correction
    do_cross_val,           \* args.do_cross_val
    correction,             \* main's argument: [combination, training sizes] pairs
    num_patient_tr,         \* main's sequence of training sizes
    grid,                   \* itertools.product(...) as a sequence of combinations
    comb_i,                 \* the counter i of the grid loop
    had_pdf,                \* os.path.isfile(pdf) when the combination was reached
    all_data_comb,          \* results of the current combination, or None
    all_data,               \* results gathered by this run
    trainer_calls,          \* calls of flexible_neural_net since the combination was reached
    messages,               \* combinations named by a "skipping combination" message
    pdf_files,              \* combinations whose figures PDF is on disk
    results_files,          \* combination -> content of its results pickle on disk
    summary_file,           \* content of the global results pickle, <<>> when absent
    location_exists,        \* the output folder has been created
    run,                    \* number of the process run on this output folder
    \* ---- the metrics gathered by do_training_test and correct_old_runs
    logs,                   \* all_data_log, tr_all_data_log, pat_all_data_log and rocs
    old_data,               \* argument old_data of correct_old_runs
    \* ---- the command line flags of display, and calculate_dataset_statistics.main
    args_plot,              \* --plot
    args_plot_slices,       \* --plot_slices
    args_plot_volume_histogram, \* --plot_volume_histogram (statistics script)
    biased_data,            \* a repeated patient has been reported
    patients,               \* the patients the statistics loop has seen
    stats_i,                \* index of the statistics loop
    prompts,                \* the calls of input() reached so far
    \* ---- the matplotlib canvas of single_experiment_runner.py
    figures,                \* the open figures (plt.get_fignums())
    closed,                 \* the figures closed by plt.close("all") so far
    pdf_pages,              \* combination -> the figures exported to its PDF
    \* ---- transform_curves_to_plot
    y_pts, x_pts,           \* the arguments: one list of points per curve
    new_y_pts, new_x_pts,   \* the lists returned
    \* ---- the construction of the training sizes in main
    args_size,              \* --size, None when absent
    args_min_size,          \* --min_size
    num,                    \* the next size of the loop of lines 2241-2243
    \* ---- do_cross_validation
    patient_level_cv        \* folds are made of whole patients (line 863)

capVars == <<x_whole, y_whole, patients_whole, num_patients_per_label, adjacent,
             new_x, new_y, new_patients, numpatients0, numpatients1>>
planVars == <<num_patients, num_folds, folds_indices, fold, idx0, idx1,
              num_patients_te, num_patients_tr, test_data, test_mask_spheres,
              te_idx, te_t_idx, tr_idx, err>>
drvVars == <<func, corrections, step, num_times, aTr, attempts, model,
             error_file, error_mark>>
gridVars == <<args_correction, do_cross_val, correction, num_patient_tr, grid, comb_i,
              had_pdf, all_data_comb, all_data, trainer_calls, messages, pdf_files,
              results_files, summary_file, location_exists, run>>
logVars == <<logs, old_data>>
figVars == <<figures, closed, pdf_pages>>
curveVars == <<y_pts, x_pts, new_y_pts, new_x_pts>>
sizeVars == <<args_size, args_min_size, num>>
modeVars == <<patient_level_cv>>
statVars == <<args_plot, args_plot_slices, args_plot_volume_histogram,
              biased_data, patients, stats_i, prompts, figVars, curveVars, sizeVars, modeVars>>
vars == <<pc, capVars, planVars, drvVars, gridVars, logVars, statVars>>

----------------------------------------------------------------------------
(* Bounds of the model *)
NumPatientIds == 3
MaxLen == 4
MaxCap == 2
MaxFolds == 3
MaxTe == 2
MaxTrSize == 3
MaxTrLen == 2

(* Python's None, and the initial prev_patient "" *)
None == -1
NoPatient == 0

Patients == 1..NumPatientIds
Labels == {0, 1}

RECURSIVE SeqsUpTo(_, _)
SeqsUpTo(S, n) ==
    IF n = 0 THEN {<<>>}
    ELSE LET shorter == SeqsUpTo(S, n - 1)
         IN shorter \cup {Append(s, e) : s \in {t \in shorter : Len(t) = n - 1}, e \in S}

Range(s) == {s[i] : i \in DOMAIN s}
Last(s) == s[Len(s)]
Front(s) == SubSeq(s, 1, Len(s) - 1)
MinOf(S) == CHOOSE m \in S : \A e \in S : m <= e
Tags(n) == [i \in 1..n |-> i]

(* Same-patient samples are adjacent: every patient occupies one run. *)
Contiguous(ps) ==
    \A i, j \in DOMAIN ps :
        (i < j /\ ps[i] = ps[j]) => \A m \in i..j : ps[m] = ps[i]

----------------------------------------------------------------------------
(* limit_number_patients_per_label *)

RECURSIVE Perms(_)
Perms(S) ==
    IF S = {} THEN {<<>>}
    ELSE UNION {{<<e>> \o t : t \in Perms(S \ {e})} : e \in S}

(* np.argsort(patients_whole) with the default, unstable, sort kind: any   *)
(* order of the indices that makes the patient ids non-decreasing.         *)
RECURSIVE ArgSortFrom(_, _)
ArgSortFrom(ps, ids) ==
    IF ids = {} THEN {<<>>}
    ELSE LET m == MinOf(ids)
             ties == {i \in DOMAIN ps : ps[i] = m}
         IN {a \o b : a \in Perms(ties), b \in ArgSortFrom(ps, ids \ {m})}

ArgSort(ps) == ArgSortFrom(ps, Range(ps))

Reordered(s, order) == [j \in DOMAIN order |-> s[order[j]]]

LimitInit ==
    [n0 |-> 0, n1 |-> 0, i0 |-> None, i1 |-> None,
     new_x |-> <<>>, new_y |-> <<>>, new_patients |-> <<>>,
     ht |-> {}, ht2 |-> {}, brk |-> FALSE]

(* line 590 *)
Admitted(st, y, p) ==
    (y = 0 /\ st.i0 = None) \/ (y = 1 /\ st.i1 = None) \/ p \in st.ht2

(* lines 603-607 and 612-616 *)
PopLast(st, p) ==
    [st EXCEPT !.new_x = Front(@), !.new_y = Front(@),
               !.new_patients = Front(@), !.ht2 = @ \ {p}]

(* One iteration of the loop of line 589 on the sample at Python index i. *)
LimitStep(st, i, x, y, p, k, adj) ==
    LET a == IF Admitted(st, y, p)
             THEN [st EXCEPT !.new_x = Append(@, x), !.new_y = Append(@, y),
                             !.new_patients = Append(@, p), !.ht2 = @ \cup {p}]
             ELSE st
    IN  IF p \in a.ht THEN a
        ELSE LET b == [a EXCEPT !.ht = @ \cup {p}]
                 c == IF y = 0
                      THEN LET c0 == [b EXCEPT !.n0 = @ + 1]
                           IN  IF c0.n0 = k + 1
                               THEN PopLast([c0 EXCEPT !.i0 = i], p)
                               ELSE c0
                      ELSE LET c1 == [b EXCEPT !.n1 = @ + 1]
                           IN  IF c1.n1 = k + 1
                               THEN PopLast([c1 EXCEPT !.i1 = i], p)
                               ELSE c1
             IN  [c EXCEPT !.brk = (c.i0 # None /\ c.i1 # None /\ adj)]

RECURSIVE LimitLoop(_, _, _, _, _, _, _)
LimitLoop(st, i, xs, ys, ps, k, adj) ==
    IF i >= Len(ps) \/ st.brk THEN st
    ELSE LimitLoop(LimitStep(st, i, xs[i + 1], ys[i + 1], ps[i + 1], k, adj),
                   i + 1, xs, ys, ps, k, adj)

(* The whole function: the optional sort rebinds x_whole, y_whole and      *)
(* patients_whole (lines 569-580), then either everything is returned      *)
(* (line 583) or the capped scan is (lines 585-619).                       *)
LimitNumberPatientsPerLabel ==
    /\ pc = "limit"
    /\ \E order \in (IF adjacent THEN {Tags(Len(patients_whole))}
                                 ELSE ArgSort(patients_whole)) :
         LET s_x == Reordered(x_whole, order)
             s_y == Reordered(y_whole, order)
             s_p == Reordered(patients_whole, order)
             st == LimitLoop(LimitInit, 0, s_x, s_y, s_p,
                             num_patients_per_label, adjacent)
         IN  /\ x_whole' = s_x
             /\ y_whole' = s_y
             /\ patients_whole' = s_p
             /\ IF num_patients_per_label = None
                THEN /\ new_x' = s_x
                     /\ new_y' = s_y
                     /\ new_patients' = s_p
                ELSE /\ new_x' = st.new_x
                     /\ new_y' = st.new_y
                     /\ new_patients' = st.new_patients
    /\ pc' = "limit_done"
    /\ UNCHANGED <<num_patients_per_label, adjacent, numpatients0, numpatients1,
                   planVars, drvVars>>
    /\ UNCHANGED gridVars
    /\ UNCHANGED logVars
    /\ UNCHANGED statVars


(* Values of the variables a specification does not use. *)
CapIdle ==
    /\ x_whole = <<>> /\ y_whole = <<>>
    /\ num_patients_per_label = None /\ adjacent = TRUE
    /\ new_x = <<>> /\ new_y = <<>> /\ new_patients = <<>>
    /\ numpatients0 = 0 /\ numpatients1 = 0

PlanIdle ==
    /\ num_patients = 0 /\ num_folds = 0 /\ folds_indices = <<>>
    /\ fold = 0 /\ idx0 = 0 /\ idx1 = 0
    /\ num_patients_te = 0 /\ num_patients_tr = <<>>
    /\ test_data = <<>> /\ test_mask_spheres = FALSE
    /\ te_idx = 0 /\ te_t_idx = 0 /\ tr_idx = <<>> /\ err = "none"

DrvIdle ==
    /\ func = "none" /\ corrections = {} /\ step = 0 /\ num_times = 0
    /\ aTr = 0 /\ attempts = <<>> /\ model = 0
    /\ error_file = <<>> /\ error_mark = 0

(* The aggregates of one run, lines 1279-1295 and 1646-1661: "all" stands  *)
(* for the keys of all_data_log and tr_all_data_log, which every step      *)
(* appends together; the pat_ fields are the keys of pat_all_data_log.     *)
EmptyLogs ==
    [all |-> <<>>, pat_pred_percentages |-> <<>>, pat_true_percentages |-> <<>>,
     pat_true_cv |-> <<>>, pat_pred_cv |-> <<>>, rocs |-> <<>>]

(* all_data_comb = None (line 2335) *)
NoResults == [comb |-> <<>>, func |-> "none", run |-> 0, logs |-> EmptyLogs]

(* A figure left open by the code that ran before the function at hand:   *)
(* analyze_data (lines 2098-2123) in main, any caller otherwise.           *)
StaleFigure == [by |-> "earlier", comb |-> <<>>]

(* The canvas a function may find: empty, or holding a figure of earlier   *)
(* code.                                                                   *)
InitialFigures == {{}, {StaleFigure}}

(* plt.close("all") (lines 1024, 1468, 1864, 2159, 2175) *)
CloseNothing(figs) == figs

CloseAll(figs) == {}

(* The figures drawn between plt.close("all") and the PDF export (lines    *)
(* 1026-1196, 1470-1596, 1866-1989), all with fig_num counted from 0.      *)
Drawn(f, c) == {[by |-> f, comb |-> c]}

(* save_plt_figures_to_pdf(filename, figs=None) (lines 212-225): every     *)
(* open figure is written to the file, which replaces an older one.        *)
SavedPdf(pages, c, figs) ==
    [d \in DOMAIN pages \cup {c} |-> IF d = c THEN figs ELSE pages[d]]

(* transform_curves_to_plot is not called *)
CurvesIdle == y_pts = <<>> /\ x_pts = <<>> /\ new_y_pts = <<>> /\ new_x_pts = <<>>

(* the training sizes are given to the model as built *)
SizesIdle == args_size = None /\ args_min_size = 4 /\ num = 0

(* no display flag is given and the statistics script is not running *)
StatsIdle ==
    /\ args_plot = FALSE /\ args_plot_slices = FALSE
    /\ args_plot_volume_histogram = FALSE
    /\ biased_data = FALSE /\ patients = {} /\ stats_i = 0 /\ prompts = {}
    /\ figures = {} /\ closed = {} /\ pdf_pages = <<>>
    /\ CurvesIdle /\ SizesIdle

GridIdle ==
    /\ args_correction = FALSE /\ do_cross_val = FALSE /\ correction = <<>>
    /\ num_patient_tr = num_patients_tr /\ grid = <<>> /\ comb_i = 0 /\ had_pdf = FALSE
    /\ all_data_comb = NoResults /\ all_data = <<>> /\ trainer_calls = 0
    /\ messages = {} /\ pdf_files = {} /\ results_files = <<>>
    /\ summary_file = <<>> /\ location_exists = FALSE /\ run = 1

(* The combination of the current iteration of the grid loop (line 2267);  *)
(* <<>> when a function is run outside the loop.                           *)
Comb == IF comb_i >= 1 /\ comb_i <= Len(grid) THEN grid[comb_i] ELSE <<>>

(* The scenario of the specification: patients [A,A,B,B,C,C,D,D] with      *)
(* labels [0,0,1,1,0,0,1,1].                                               *)
ScenarioPatients == <<1, 1, 2, 2, 3, 3, 4, 4>>
ScenarioLabels == <<0, 0, 1, 1, 0, 0, 1, 1>>

(* The callers: main (line 2117, adjacent=False, cap args.size or None)    *)
(* and read_dataset (calculate_dataset_statistics.py line 101, adjacent    *)
(* left at True), on the samples as loaded.                                *)
InitCap ==
    /\ patient_level_cv = TRUE
    /\ pc = "limit"
    /\ \/ \E ps \in SeqsUpTo(Patients, MaxLen) :
            /\ patients_whole = ps
            /\ y_whole \in [1..Len(ps) -> Labels]
       \/ /\ patients_whole = ScenarioPatients
          /\ y_whole = ScenarioLabels
    /\ x_whole = Tags(Len(patients_whole))
    /\ num_patients_per_label \in {None} \cup 0..MaxCap
    /\ adjacent \in BOOLEAN
    /\ new_x = <<>> /\ new_y = <<>> /\ new_patients = <<>>
    /\ numpatients0 = 0 /\ numpatients1 = 0
    /\ PlanIdle
    /\ DrvIdle
    /\ GridIdle
    /\ logs = EmptyLogs /\ old_data = EmptyLogs
    /\ StatsIdle

NextCap == LimitNumberPatientsPerLabel

SpecCap == InitCap /\ [][NextCap]_vars


----------------------------------------------------------------------------
(* Claims about limit_number_patients_per_label.  They are read on the     *)
(* samples as scanned (after the optional sort), so patients_whole below   *)
(* is the sequence the loop of line 589 walks.                             *)

CapReturned == pc = "limit_done" /\ num_patients_per_label # None

(* The input is in the claims' scope: patient-contiguous, which the sort   *)
(* of adjacent=False establishes for any ordering.                         *)
CapInScope == Contiguous(patients_whole)

FirstIndex(ps, p) == MinOf({i \in DOMAIN ps : ps[i] = p})

(* A patient's label is the label of its first sample. *)
PatientLabel(p) == y_whole[FirstIndex(patients_whole, p)]

(* Number of patients of p's label that start no later than p. *)
RankInLabel(p) ==
    Cardinality({q \in Range(patients_whole) :
                    /\ PatientLabel(q) = PatientLabel(p)
                    /\ FirstIndex(patients_whole, q) <= FirstIndex(patients_whole, p)})

FirstOfLabel(k) == {p \in Range(patients_whole) : RankInLabel(p) <= k}

TagsOf(P) == {x_whole[i] : i \in {j \in DOMAIN patients_whole : patients_whole[j] \in P}}

UniformLabels ==
    \A i, j \in DOMAIN patients_whole :
        patients_whole[i] = patients_whole[j] => y_whole[i] = y_whole[j]

(* C2: the output holds at most k distinct patients per label, a patient's *)
(* label being the label of its first sample.                              *)
C2_AtMostCapPerLabel ==
    (CapReturned /\ CapInScope) =>
        \A l \in Labels :
            Cardinality({p \in Range(new_patients) : PatientLabel(p) = l})
                <= num_patients_per_label

(* C3: no partial patient: the output holds every sample of each admitted  *)
(* patient (one of the first k of its first-sample label) and no sample of *)
(* any other patient, mixed-label patients included.                       *)
C3_NoPartialPatient ==
    (CapReturned /\ CapInScope) =>
        /\ \A p \in Range(patients_whole) :
              \/ TagsOf({p}) \subseteq Range(new_x)
              \/ TagsOf({p}) \cap Range(new_x) = {}
        /\ Range(new_x) = TagsOf(FirstOfLabel(num_patients_per_label))

KeptPositions(k) ==
    {i \in DOMAIN patients_whole : patients_whole[i] \in FirstOfLabel(k)}

RECURSIVE Restrict(_, _, _)
Restrict(s, keep, i) ==
    IF i > Len(s) THEN <<>>
    ELSE (IF i \in keep THEN <<s[i]>> ELSE <<>>) \o Restrict(s, keep, i + 1)

(* C4: the patients kept for each label are exactly the first              *)
(* min(k, patients of that label) of that label in scan order, with all    *)
(* their samples in the original relative order; the scenario              *)
(* [A,A,B,B,C,C,D,D], labels [0,0,1,1,0,0,1,1], k = 1 yields [A,A,B,B].    *)
C4_FirstPatientsOfEachLabel ==
    (CapReturned /\ CapInScope) =>
        LET keep == KeptPositions(num_patients_per_label)
        IN  /\ new_patients = Restrict(patients_whole, keep, 1)
            /\ new_y = Restrict(y_whole, keep, 1)
            /\ new_x = Restrict(x_whole, keep, 1)
            /\ adjacent => \A i, j \in DOMAIN new_x : i < j => new_x[i] < new_x[j]
            /\ (patients_whole = ScenarioPatients /\ y_whole = ScenarioLabels
                    /\ num_patients_per_label = 1)
                 => (new_patients = <<1, 1, 2, 2>> /\ Len(new_x) = 4)

(* The three statements above on inputs whose patients each carry one      *)
(* label: there the cap behaves as documented.                             *)
CapOnUniformLabels ==
    UniformLabels => (C2_AtMostCapPerLabel /\ C3_NoPartialPatient
                        /\ C4_FirstPatientsOfEachLabel)


----------------------------------------------------------------------------
(* do_cross_validation: the patient-level fold boundaries (lines 863-880)  *)

(* Mutant: the factor taken from patient_num, which counts from 1. *)
FoldFactorFromPatientNum(total_patient_num, P, F) == ((total_patient_num + 1) * F) \div P

(* int(total_patient_num / num_patients_per_fold), line 876, with          *)
(* num_patients_per_fold = num_patients / num_folds (line 865).  The       *)
(* double-precision quotient equals the exact floor for every              *)
(* num_patients below 18 (the first difference is num_patients = 18,       *)
(* num_folds = 14, total_patient_num = 9), which covers the model.         *)
FoldFactor(total_patient_num, P, F) == (total_patient_num * F) \div P

KFoldInit ==
    [patient_num |-> 0, total_patient_num |-> -1, prev_patient |-> NoPatient,
     folds_indices |-> <<>>, prev_factor |-> -1]

(* Mutant: the boundary recorded one sample late. *)
FoldBoundaryOffByOne(i) == i + 1

(* The index appended at line 878 for a patient whose run starts at i. *)
FoldBoundary(i) == i

(* The body of the loop of line 871 for the sample at Python index i. *)
KFoldStep(st, i, patient, P, F) ==
    IF patient # st.prev_patient
    THEN LET factor == FoldFactor(st.total_patient_num + 1, P, F)
         IN  [st EXCEPT !.prev_patient = patient,
                        !.patient_num = @ + 1,
                        !.total_patient_num = @ + 1,
                        !.folds_indices =
                            IF factor # st.prev_factor
                            THEN Append(@, FoldBoundary(i)) ELSE @,
                        !.prev_factor = factor]
    ELSE st

RECURSIVE KFoldLoop(_, _, _, _, _)
KFoldLoop(st, i, ps, P, F) ==
    IF i >= Len(ps) THEN st
    ELSE KFoldLoop(KFoldStep(st, i, ps[i + 1], P, F), i + 1, ps, P, F)

(* The boundary appended after the loop, line 880. *)
FinalFoldBoundary(ps) == Len(ps)

(* lines 866-880 *)
FoldsIndices(ps, P, F) ==
    Append(KFoldLoop(KFoldInit, 0, ps, P, F).folds_indices, FinalFoldBoundary(ps))

(* np.round(a / b): the nearest integer, the even one of two equally near *)
RoundHalfEven(a, b) ==
    LET q == a \div b
        r == a % b
    IN  IF 2 * r < b THEN q
        ELSE IF 2 * r > b THEN q + 1
        ELSE IF q % 2 = 0 THEN q ELSE q + 1

(* Mutant: every fold of the one rounded size. *)
SliceBoundaryFixedSize(i, n, F) == i * RoundHalfEven(n, F)

(* int(np.round(i * size_fold)) with size_fold = x_whole.shape[0] /        *)
(* num_folds (lines 882, 909-910).  The double-precision product rounds    *)
(* to the exact value for every length below 15, which covers the model.  *)
SliceBoundary(i, n, F) == RoundHalfEven(i * n, F)

CVPlan ==
    /\ pc = "cv"
    /\ folds_indices' = IF patient_level_cv
                        THEN FoldsIndices(patients_whole, num_patients, num_folds)
                        ELSE <<>>
    /\ fold' = 0
    /\ pc' = "cv_fold"
    /\ UNCHANGED <<capVars, num_patients, num_folds, idx0, idx1, num_patients_te,
                   num_patients_tr, test_data, test_mask_spheres,
                   te_idx, te_t_idx, tr_idx, err, drvVars>>
    /\ UNCHANGED gridVars
    /\ UNCHANGED logVars
    /\ UNCHANGED statVars

(* One iteration of the fold loop (lines 902-921 and the training that     *)
(* follows): the test range is [idx0, idx1), the training set the rest.    *)
(* folds_indices[i + 1] raises IndexError when the planner produced fewer  *)
(* than num_folds + 1 boundaries.                                          *)
CVFold ==
    /\ pc = "cv_fold"
    /\ fold < num_folds
    /\ IF ~patient_level_cv
       THEN /\ idx0' = SliceBoundary(fold, Len(patients_whole), num_folds)
            /\ idx1' = SliceBoundary(fold + 1, Len(patients_whole), num_folds)
            /\ fold' = fold + 1
            /\ pc' = "cv_fold"
            /\ err' = err
       ELSE IF fold + 2 <= Len(folds_indices)
       THEN /\ idx0' = folds_indices[fold + 1]
            /\ idx1' = folds_indices[fold + 2]
            /\ fold' = fold + 1
            /\ pc' = "cv_fold"
            /\ err' = err
       ELSE /\ err' = "IndexError"
            /\ pc' = "raised"
            /\ UNCHANGED <<idx0, idx1, fold>>
    /\ UNCHANGED <<capVars, num_patients, num_folds, folds_indices, num_patients_te,
                   num_patients_tr, test_data, test_mask_spheres,
                   te_idx, te_t_idx, tr_idx, drvVars>>
    /\ trainer_calls' = IF fold + 2 <= Len(folds_indices)
                        THEN trainer_calls + 1 ELSE trainer_calls
    /\ UNCHANGED <<args_correction, do_cross_val, correction, num_patient_tr, grid,
                   comb_i, had_pdf, all_data_comb, all_data, messages, pdf_files,
                   results_files, summary_file, location_exists, run>>
    /\ UNCHANGED logVars
    /\ UNCHANGED statVars

(* The loop is over: figures are saved (line 1197) and the logs returned    *)
(* (line 1201).                                                            *)
CVReturn ==
    /\ pc = "cv_fold"
    /\ fold = num_folds
    /\ pc' = "cv_done"
    /\ UNCHANGED <<capVars, planVars, drvVars>>
    /\ pdf_files' = pdf_files \cup {Comb}
    /\ UNCHANGED <<args_correction, do_cross_val, correction, num_patient_tr, grid,
                   comb_i, had_pdf, all_data_comb, all_data, trainer_calls, messages,
                   results_files, summary_file, location_exists, run>>
    /\ UNCHANGED logVars
    /\ prompts' = IF pc' # "raised" /\ args_plot THEN prompts \cup {"figures"} ELSE prompts
    /\ UNCHANGED <<args_plot, args_plot_slices, args_plot_volume_histogram,
                   biased_data, patients, stats_i, curveVars, sizeVars, modeVars>>
    /\ LET cleared == CloseAll(figures)
           drawn == cleared \cup Drawn("do_cross_validation", Comb)
       IN  /\ pdf_pages' = SavedPdf(pdf_pages, Comb, drawn)
           /\ figures' = IF args_plot THEN CloseAll(drawn) ELSE drawn
           /\ closed' = closed \cup (figures \ cleared) \cup (drawn \ figures')


----------------------------------------------------------------------------
(* do_training_test and correct_old_runs: the test split and the           *)
(* training-size boundaries                                                *)

(* The loops of lines 1220-1225, 1233-1238 and 1616-1621: scan until       *)
(* patient number te + 1 begins.  The result holds the loop variable i as  *)
(* the loop leaves it (None when the sequence is empty and i was never     *)
(* bound) and total_patient_num.                                           *)
RECURSIVE TestScan(_, _, _, _, _)
TestScan(ps, te, i, total_patient_num, prev_patient) ==
    IF i >= Len(ps)
    THEN [i |-> IF Len(ps) = 0 THEN None ELSE Len(ps) - 1,
          total_patient_num |-> total_patient_num]
    ELSE IF ps[i + 1] # prev_patient
         THEN IF total_patient_num + 1 = te
              THEN [i |-> i, total_patient_num |-> total_patient_num + 1]
              ELSE TestScan(ps, te, i + 1, total_patient_num + 1, ps[i + 1])
         ELSE TestScan(ps, te, i + 1, total_patient_num, prev_patient)

(* lines 1226-1229 (and 1239-1242 on the test dataset) *)
ClampedTestIndex(ps, te) ==
    LET r == TestScan(ps, te, 0, -1, NoPatient)
    IN  IF r.total_patient_num < te THEN Len(ps) ELSE r.i

(* line 1622: correct_old_runs takes i as the loop left it *)
UnclampedTestIndex(ps, te) == TestScan(ps, te, 0, -1, NoPatient).i

(* Mutant: the patient counter of the training scan starts at 0. *)
TrainInitFromZero(trs) ==
    [total_patient_num |-> 0, prev_patient |-> NoPatient, tmp_tr |-> trs[1],
     tr_idx |-> <<>>, iii |-> 1, brk |-> FALSE]

(* lines 1244-1248 and 1623-1627 *)
TrainInit(trs) ==
    [total_patient_num |-> -1, prev_patient |-> NoPatient, tmp_tr |-> trs[1],
     tr_idx |-> <<>>, iii |-> 1, brk |-> FALSE]

(* The index appended at lines 1256 and 1634. *)
TrainBoundary(i) == i

(* Mutant: the training scan does not skip the test partition. *)
InTestPartitionNever(i, te) == FALSE

(* lines 1250-1251 and 1629-1630: samples of the test partition are skipped *)
InTestPartition(i, te) == i < te

(* The body of the loops of lines 1249-1261 and 1628-1639. *)
TrainStep(st, i, patient, te, trs) ==
    IF InTestPartition(i, te) THEN st
    ELSE IF patient # st.prev_patient
         THEN LET a == [st EXCEPT !.prev_patient = patient,
                                  !.total_patient_num = @ + 1]
              IN  IF a.total_patient_num = a.tmp_tr
                  THEN LET b == [a EXCEPT !.tr_idx = Append(@, TrainBoundary(i))]
                       IN  IF b.iii < Len(trs)
                           THEN [b EXCEPT !.tmp_tr = trs[b.iii + 1], !.iii = @ + 1]
                           ELSE [b EXCEPT !.brk = TRUE]
                  ELSE a
         ELSE st

RECURSIVE TrainLoop(_, _, _, _, _)
TrainLoop(st, i, ps, te, trs) ==
    IF i >= Len(ps) \/ st.brk THEN st
    ELSE TrainLoop(TrainStep(st, i, ps[i + 1], te, trs), i + 1, ps, te, trs)

(* Mutant: the clamp appends the last index instead of the length. *)
ClampBoundaryLastIndex(ps) == Len(ps) - 1

(* The boundary appended by the clamp, line 1263. *)
ClampBoundary(ps) == Len(ps)

(* lines 1262-1263: the clamp of do_training_test *)
ClampedTrainIndices(ps, te, trs) ==
    LET st == TrainLoop(TrainInit(trs), 0, ps, te, trs)
    IN  IF st.total_patient_num < st.tmp_tr
        THEN Append(st.tr_idx, ClampBoundary(ps)) ELSE st.tr_idx

(* correct_old_runs has no clamp after the loop (line 1640) *)
UnclampedTrainIndices(ps, te, trs) ==
    TrainLoop(TrainInit(trs), 0, ps, te, trs).tr_idx

(* Mutant: the sizes that got no boundary are kept. *)
Untruncated(trs, tr) == trs

(* lines 1270-1271 and 1642-1643 *)
Truncated(trs, tr) ==
    IF Len(trs) > Len(tr) THEN SubSeq(trs, 1, Len(tr)) ELSE trs

(* line 1275 *)
NumSpheres == 6

Repeated(v, n) == [j \in 1..n |-> v]

(* What the trainer's model yields for the step at Python index i: the     *)
(* metrics of lines 1387-1425 and the per-patient percentages of lines     *)
(* 1427-1439 (one list per step).                                          *)
Metrics(i) == [step |-> i, size |-> num_patients_tr[i + 1], run |-> run]

Percentages(kind, i) == << [kind |-> kind, step |-> i, run |-> run] >>

(* One step's appends, lines 1387-1464 (new metrics) and 1673-1719 (cached *)
(* metrics): pat_all_data_log["true_cv"] receives the list given as pred   *)
(* and ["pred_cv"] the list given as true (lines 1442-1443, 1716-1717).    *)
Merged(l, m, pred, true, roc) ==
    [all |-> Append(l.all, m),
     pat_pred_percentages |-> l.pat_pred_percentages \o pred,
     pat_true_percentages |-> l.pat_true_percentages \o true,
     pat_true_cv |-> Append(l.pat_true_cv, pred),
     pat_pred_cv |-> Append(l.pat_pred_cv, true),
     rocs |-> Append(l.rocs, roc)]

(* do_training_test, lines 1216-1277.  num_patients_tr[0] raises           *)
(* IndexError on an empty sequence of sizes.                               *)
TTPlan ==
    /\ pc = "tt"
    /\ func = "do_training_test"
    /\ IF Len(num_patients_tr) = 0
       THEN /\ err' = "IndexError"
            /\ pc' = "raised"
            /\ UNCHANGED <<te_idx, te_t_idx, tr_idx, num_patients_tr>>
       ELSE LET te == IF test_data = <<>>
                      THEN ClampedTestIndex(patients_whole, num_patients_te)
                      ELSE 0
                tr == ClampedTrainIndices(patients_whole, te, num_patients_tr)
                trs == Truncated(num_patients_tr, tr)
            IN  /\ te_idx' = te
                /\ te_t_idx' = IF test_data = <<>> THEN te_t_idx
                               ELSE ClampedTestIndex(test_data[1], num_patients_te)
                /\ IF test_mask_spheres
                   THEN /\ num_patients_tr' = Repeated(trs[1], NumSpheres)
                        /\ tr_idx' = Repeated(tr[1], NumSpheres)
                   ELSE /\ num_patients_tr' = trs
                        /\ tr_idx' = tr
                /\ err' = err
                /\ pc' = "steps"
    /\ step' = 0
    /\ UNCHANGED <<capVars, num_patients, num_folds, folds_indices, fold, idx0, idx1,
                   num_patients_te, test_data, test_mask_spheres,
                   func, corrections, num_times, aTr, attempts, model,
                   error_file, error_mark>>
    /\ UNCHANGED gridVars
    /\ logs' = EmptyLogs
    /\ UNCHANGED old_data
    /\ UNCHANGED statVars

(* correct_old_runs, lines 1613-1643.  te_idx = i raises                   *)
(* UnboundLocalError when patients_whole is empty.                         *)
COPlan ==
    /\ pc = "tt"
    /\ func = "correct_old_runs"
    /\ IF Len(patients_whole) = 0
       THEN /\ err' = "UnboundLocalError"
            /\ pc' = "raised"
            /\ UNCHANGED <<te_idx, tr_idx, num_patients_tr>>
       ELSE IF Len(num_patients_tr) = 0
       THEN /\ err' = "IndexError"
            /\ pc' = "raised"
            /\ UNCHANGED <<te_idx, tr_idx, num_patients_tr>>
       ELSE LET te == UnclampedTestIndex(patients_whole, num_patients_te)
                tr == UnclampedTrainIndices(patients_whole, te, num_patients_tr)
            IN  /\ te_idx' = te
                /\ tr_idx' = tr
                /\ num_patients_tr' = Truncated(num_patients_tr, tr)
                /\ err' = err
                /\ pc' = "steps"
    /\ step' = 0
    /\ UNCHANGED <<capVars, num_patients, num_folds, folds_indices, fold, idx0, idx1,
                   num_patients_te, test_data, test_mask_spheres, te_t_idx,
                   func, corrections, num_times, aTr, attempts, model,
                   error_file, error_mark>>
    /\ UNCHANGED gridVars
    /\ logs' = EmptyLogs
    /\ UNCHANGED old_data
    /\ UNCHANGED statVars


----------------------------------------------------------------------------
(* The planners on their own *)

(* patients_whole as main hands it over: sorted by patient id by the       *)
(* argsort of limit_number_patients_per_label (line 2117), hence           *)
(* patient-contiguous.  The planners only compare neighbouring ids.        *)
SortedPatientSeqs ==
    {ps \in SeqsUpTo(Patients, MaxLen) :
        \A i \in DOMAIN ps : i > 1 => ps[i - 1] <= ps[i]}

(* The scenario of the specification: 6 patients of 2 samples each. *)
FoldScenarioPatients == <<1, 1, 2, 2, 3, 3, 4, 4, 5, 5, 6, 6>>

(* Patients of a separate test dataset (line 2100), disjoint from the      *)
(* training patients (line 2131), or none.                                 *)
TestDataChoices == {<<>>, << <<8>> >>, << <<8, 8, 9>> >>}

PlanInputs ==
    /\ patients_whole \in SortedPatientSeqs \cup {FoldScenarioPatients}
    /\ num_patients = Cardinality(Range(patients_whole))
    /\ x_whole = <<>> /\ y_whole = <<>>
    /\ num_patients_per_label = None /\ adjacent = TRUE
    /\ new_x = <<>> /\ new_y = <<>> /\ new_patients = <<>>
    /\ numpatients0 = 0 /\ numpatients1 = 0
    /\ folds_indices = <<>> /\ fold = 0 /\ idx0 = 0 /\ idx1 = 0
    /\ te_idx = 0 /\ te_t_idx = 0 /\ tr_idx = <<>> /\ err = "none"

InitPlan ==
    /\ PlanInputs
    /\ \/ /\ pc = "cv"
          /\ func = "do_cross_validation"
          /\ num_folds \in 1..MaxFolds
          /\ patient_level_cv \in BOOLEAN
          /\ num_patients_te = 0 /\ num_patients_tr = <<>>
          /\ test_data = <<>> /\ test_mask_spheres = FALSE
       \/ /\ pc = "tt"
          /\ num_folds = 0
          /\ patient_level_cv = TRUE
          /\ num_patients_te \in 0..MaxTe
          /\ num_patients_tr \in SeqsUpTo(1..MaxTrSize, MaxTrLen)
          /\ \/ /\ func = "do_training_test"
                /\ test_data \in TestDataChoices
                /\ test_mask_spheres \in BOOLEAN
             \/ /\ func = "correct_old_runs"
                /\ test_data = <<>> /\ test_mask_spheres = FALSE
    /\ corrections = {} /\ step = 0 /\ num_times = 0
    /\ aTr = 0 /\ attempts = <<>> /\ model = 0
    /\ error_file = <<>> /\ error_mark = 0
    /\ GridIdle
    /\ logs = EmptyLogs /\ old_data = EmptyLogs
    /\ StatsIdle

NextPlan == CVPlan \/ CVFold \/ CVReturn \/ TTPlan \/ COPlan

SpecPlan == InitPlan /\ [][NextPlan]_vars


----------------------------------------------------------------------------
(* Claims about the planners *)

NumSamples == Len(patients_whole)

(* Patients with a sample at a Python index in [a, b). *)
PatientsIn(a, b) == {patients_whole[i + 1] : i \in {j \in 0..(NumSamples - 1) : a <= j /\ j < b}}

(* b is the number of samples or the index of the first sample of a run. *)
AtRunStart(b) ==
    \/ b = NumSamples
    \/ /\ b \in 0..(NumSamples - 1)
       /\ (b = 0 \/ patients_whole[b] # patients_whole[b + 1])

FoldsPlanned ==
    /\ func = "do_cross_validation" /\ pc \in {"cv_fold", "cv_done", "raised"}
    /\ patient_level_cv
SweepPlanned == func = "do_training_test" /\ pc = "steps"

(* C1: for patient-contiguous input every boundary of folds_indices, te_idx *)
(* and every entry of tr_idx is the number of samples or the start of a     *)
(* patient run, so no patient has samples on both sides of a fold's or a    *)
(* step's training/test partition.                                          *)
C1_BoundariesAtPatientStarts ==
    Contiguous(patients_whole) =>
        /\ FoldsPlanned =>
              /\ \A j \in DOMAIN folds_indices : AtRunStart(folds_indices[j])
              /\ fold >= 1 =>
                    PatientsIn(idx0, idx1)
                        \cap (PatientsIn(0, idx0) \cup PatientsIn(idx1, NumSamples)) = {}
        /\ SweepPlanned =>
              /\ AtRunStart(te_idx)
              /\ \A j \in DOMAIN tr_idx :
                    /\ AtRunStart(tr_idx[j])
                    /\ test_data = <<>> =>
                          PatientsIn(0, te_idx) \cap PatientsIn(te_idx, tr_idx[j]) = {}

C1_Witness ==
    /\ func = "do_cross_validation" /\ pc = "cv_fold" /\ fold = 2
    /\ patient_level_cv
    /\ 0 < idx0 /\ idx1 < NumSamples
    /\ idx1 - idx0 >= 2
    /\ patients_whole[idx0] = patients_whole[idx0 - 1]

(* C6 as stated: in both planner modes the last boundary equals the number *)
(* of samples, for every input and every list of requested sizes.          *)
C6_LastBoundaryIsLength ==
    /\ FoldsPlanned => Last(folds_indices) = NumSamples
    /\ SweepPlanned => Last(tr_idx) = NumSamples

(* C6 amended: the last fold boundary equals the number of samples; the    *)
(* last entry of tr_idx never exceeds it and equals it exactly when the    *)
(* planner clamped, i.e. when the last training size kept is at least the  *)
(* number of patients available from te_idx on.                            *)
C6_LastBoundaryClamped ==
    /\ FoldsPlanned =>
          /\ Len(folds_indices) >= 1
          /\ Last(folds_indices) = NumSamples
    /\ SweepPlanned =>
          /\ Len(tr_idx) >= 1
          /\ Len(num_patients_tr) = Len(tr_idx)
          /\ Last(tr_idx) <= NumSamples
          /\ (Last(tr_idx) = NumSamples)
                <=> (Cardinality(PatientsIn(te_idx, NumSamples)) <= Last(num_patients_tr))

C6_Witness ==
    /\ SweepPlanned
    /\ Len(tr_idx) = 2
    /\ te_idx > 0
    /\ Last(tr_idx) < NumSamples
    /\ Cardinality(PatientsIn(te_idx, NumSamples)) > Last(num_patients_tr)

(* C7: every boundary sequence is monotonically non-decreasing:            *)
(* folds_indices[i] <= folds_indices[i+1], and te_idx <= tr_idx[0] <=      *)
(* tr_idx[1] <= ... in sweep mode.                                         *)
C7_BoundariesMonotone ==
    /\ FoldsPlanned =>
          \A i, j \in DOMAIN folds_indices : i < j => folds_indices[i] <= folds_indices[j]
    /\ SweepPlanned =>
          /\ \A j \in DOMAIN tr_idx : te_idx <= tr_idx[j]
          /\ \A i, j \in DOMAIN tr_idx : i < j => tr_idx[i] <= tr_idx[j]

C7_Witness ==
    /\ SweepPlanned
    /\ ~test_mask_spheres
    /\ Len(tr_idx) = 2
    /\ 0 < te_idx /\ te_idx < tr_idx[1] /\ tr_idx[1] < tr_idx[2]
    /\ num_patients_tr[1] < num_patients_tr[2]

PatientsOfFold(j) == Cardinality(PatientsIn(folds_indices[j], folds_indices[j + 1]))

(* C8: with P >= F patients the k-fold planner yields exactly F + 1        *)
(* boundaries and every fold holds floor(P/F) or ceil(P/F) patients,       *)
(* exactly P/F when F divides P; 6 patients of 2 samples and 3 folds give  *)
(* [0,4,8,12].                                                             *)
C8_EvenFolds ==
    (FoldsPlanned /\ Contiguous(patients_whole) /\ num_patients >= num_folds) =>
        LET lo == num_patients \div num_folds
            hi == IF num_patients % num_folds = 0 THEN lo ELSE lo + 1
        IN  /\ Len(folds_indices) = num_folds + 1
            /\ \A j \in 1..num_folds : PatientsOfFold(j) \in {lo, hi}
            /\ fold >= 1 => Cardinality(PatientsIn(idx0, idx1)) \in {lo, hi}
            /\ err = "none"
            /\ (patients_whole = FoldScenarioPatients /\ num_folds = 3)
                  => folds_indices = <<0, 4, 8, 12>>

C8_Witness ==
    /\ func = "do_cross_validation" /\ pc = "cv_done"
    /\ patient_level_cv
    /\ num_patients > num_folds
    /\ num_patients % num_folds # 0
    /\ num_folds >= 2
    /\ NumSamples > num_patients


----------------------------------------------------------------------------
(* reorder_maintaining_label_balance, as main calls it (lines 2136-2154)   *)

Abs(v) == IF v < 0 THEN -v ELSE v

(* np_utils.to_categorical(y, num_classes): one row per sample with a 1 in *)
(* column y (columns are numbered from 0; row[j + 1] is column j).         *)
Categorical(y, num_classes) == [j \in 1..num_classes |-> IF j = y + 1 THEN 1 ELSE 0]

(* lines 2136-2137: labels = np.unique(y_whole); the conversion indexes    *)
(* column y and raises IndexError for a label >= len(labels).              *)
ToCategorical ==
    /\ pc = "categorical"
    /\ LET num_classes == Cardinality(Range(y_whole))
       IN  IF \E i \in DOMAIN y_whole : y_whole[i] >= num_classes
           THEN /\ err' = "IndexError"
                /\ pc' = "raised"
                /\ y_whole' = y_whole
           ELSE /\ y_whole' = [i \in DOMAIN y_whole |-> Categorical(y_whole[i], num_classes)]
                /\ pc' = "reorder"
                /\ err' = err
    /\ UNCHANGED <<x_whole, patients_whole, num_patients_per_label, adjacent,
                   new_x, new_y, new_patients, numpatients0, numpatients1,
                   num_patients, num_folds, folds_indices, fold, idx0, idx1,
                   num_patients_te, num_patients_tr, test_data, test_mask_spheres,
                   te_idx, te_t_idx, tr_idx, drvVars>>
    /\ UNCHANGED gridVars
    /\ UNCHANGED logVars
    /\ UNCHANGED statVars

(* np.unique(p_set): the distinct ids in increasing order (line 629) *)
RECURSIVE SortedSeq(_)
SortedSeq(S) ==
    IF S = {} THEN <<>> ELSE <<MinOf(S)>> \o SortedSeq(S \ {MinOf(S)})

(* np.array(y_set)[:, 1], line 631 (defined when there are two columns) *)
LabelColumn(y_set) == [i \in DOMAIN y_set |-> y_set[i][2]]

(* np.argwhere(labels == v), lines 641-642 and 675-676: 0-based indices *)
RECURSIVE IndicesOf(_, _, _)
IndicesOf(ls, v, i) ==
    IF i > Len(ls) THEN <<>>
    ELSE (IF ls[i] = v THEN <<i - 1>> ELSE <<>>) \o IndicesOf(ls, v, i + 1)

CountOf(ls, v) == Cardinality({i \in DOMAIN ls : ls[i] = v})

(* Mutant: label 0 is taken as long as a patient of label 0 is left. *)
TakeZeroWhileLeft(n0, n1, C0, C1) == n0 < C0

(* Mutant: the two deviations compared without abs(). *)
TakeZeroSigned(n0, n1, C0, C1) ==
    (n0 + 1) * C1 - n1 * C0 <= n0 * C1 - (n1 + 1) * C0

(* Mutant: a tie goes to label 1. *)
TakeZeroStrict(n0, n1, C0, C1) ==
    Abs((n0 + 1) * C1 - n1 * C0) < Abs(n0 * C1 - (n1 + 1) * C0)

(* Mutant: a tie goes to the label that is behind its global share. *)
TakeZeroWhenBehind(n0, n1, C0, C1) ==
    \/ Abs((n0 + 1) * C1 - n1 * C0) < Abs(n0 * C1 - (n1 + 1) * C0)
    \/ /\ Abs((n0 + 1) * C1 - n1 * C0) = Abs(n0 * C1 - (n1 + 1) * C0)
       /\ n0 * C1 <= n1 * C0

(* The test of lines 648 and 682 with c0 = C0/N and c1 = C1/N, N > 0,      *)
(* both sides multiplied by N.  For N < 12 the double-precision comparison *)
(* of the code gives the same answer as this exact one.                    *)
TakeZero(n0, n1, C0, C1) ==
    Abs((n0 + 1) * C1 - n1 * C0) <= Abs(n0 * C1 - (n1 + 1) * C0)

(* The loops of lines 646-659 and 680-689: the sequence of picked unit     *)
(* indices (0-based), the counters, and whether an index lookup            *)
(* idx_zeros[n0] or idx_ones[n1] went out of range.                        *)
RECURSIVE GreedyPicks(_, _, _, _, _, _)
GreedyPicks(st, i, n, idx_zeros, idx_ones, C) ==
    IF i >= n \/ st.err # "none" THEN st
    ELSE IF TakeZero(st.n0, st.n1, C[1], C[2])
         THEN IF st.n0 >= Len(idx_zeros)
              THEN [st EXCEPT !.err = "IndexError"]
              ELSE GreedyPicks([st EXCEPT !.picks = Append(@, idx_zeros[st.n0 + 1]),
                                          !.n0 = @ + 1],
                               i + 1, n, idx_zeros, idx_ones, C)
         ELSE IF st.n1 >= Len(idx_ones)
              THEN [st EXCEPT !.err = "IndexError"]
              ELSE GreedyPicks([st EXCEPT !.picks = Append(@, idx_ones[st.n1 + 1]),
                                          !.n1 = @ + 1],
                               i + 1, n, idx_zeros, idx_ones, C)

GreedyInit == [picks |-> <<>>, n0 |-> 0, n1 |-> 0, err |-> "none"]

(* lines 691-693: the end (idx1) of the run of the patient that starts at  *)
(* first (idx0)                                                            *)
RECURSIVE RunEndFrom(_, _, _)
RunEndFrom(p_set, p0, stop) ==
    IF stop < Len(p_set) /\ p_set[stop + 1] = p0
    THEN RunEndFrom(p_set, p0, stop + 1) ELSE stop

(* Mutant: only the first sample of the chosen patient is taken. *)
RunEndSingle(p_set, first) == first + 1

RunEnd(p_set, first) == RunEndFrom(p_set, p_set[first + 1], first)

RECURSIVE Flatten(_)
Flatten(ss) == IF ss = <<>> THEN <<>> ELSE Head(ss) \o Flatten(Tail(ss))


Raised(e) == [err |-> e, order |-> <<>>, n0 |-> 0, n1 |-> 0]

(* lines 634-660: all patients are unique, the units are the samples *)
ReorderUnique(labels) ==
    LET C0 == CountOf(labels, 0)
        C1 == CountOf(labels, 1)
    IN  IF C0 + C1 # Len(labels) THEN Raised("AssertionError")
        ELSE LET g == GreedyPicks(GreedyInit, 0, Len(labels),
                                  IndicesOf(labels, 0, 1), IndicesOf(labels, 1, 1),
                                  <<C0, C1>>)
             IN  IF g.err # "none" THEN Raised(g.err)
                 ELSE [err |-> "none",
                       order |-> [j \in DOMAIN g.picks |-> g.picks[j] + 1],
                       n0 |-> g.n0, n1 |-> g.n1]

(* Mutant: the length of the result is not checked. *)
AllSamplesTakenUnchecked(order, p_set) == TRUE

(* line 700: assert(len(new_p_set) == len(p_set)) *)
AllSamplesTaken(order, p_set) == Len(order) = Len(p_set)

(* lines 662-701: repeated patients, the units are the patients in the     *)
(* order of np.unique, labelled by their first sample                      *)
ReorderRepeated(labels, p_set, unique_p) ==
    LET idxs_first_p == [j \in DOMAIN unique_p |-> FirstIndex(p_set, unique_p[j]) - 1]
        patients_labels == [j \in DOMAIN unique_p |-> labels[idxs_first_p[j] + 1]]
        C0 == CountOf(patients_labels, 0)
        C1 == CountOf(patients_labels, 1)
    IN  IF C0 + C1 # Len(unique_p) THEN Raised("AssertionError")
        ELSE LET g == GreedyPicks(GreedyInit, 0, Len(unique_p),
                                  IndicesOf(patients_labels, 0, 1),
                                  IndicesOf(patients_labels, 1, 1), <<C0, C1>>)
                 slice(u) == LET first == idxs_first_p[u + 1]
                                 last == RunEnd(p_set, first)
                             IN  [m \in 1..(last - first) |-> first + m]
                 order == Flatten([j \in DOMAIN g.picks |-> slice(g.picks[j])])
             IN  IF g.err # "none" THEN Raised(g.err)
                 ELSE IF ~AllSamplesTaken(order, p_set) THEN Raised("AssertionError")
                 ELSE [err |-> "none", order |-> order, n0 |-> g.n0, n1 |-> g.n1]

(* lines 629-634: when y_set has no column 1 the IndexError is swallowed   *)
(* and labels stays unbound, which raises at its first use.                *)
ReorderResult(y_set, p_set) ==
    LET unique_p == SortedSeq(Range(p_set))
    IN  IF Len(y_set) = 0 \/ \E i \in DOMAIN y_set : Len(y_set[i]) < 2
        THEN Raised("UnboundLocalError")
        ELSE IF Len(unique_p) = Len(p_set)
             THEN ReorderUnique(LabelColumn(y_set))
             ELSE ReorderRepeated(LabelColumn(y_set), p_set, unique_p)

ReorderMaintainingLabelBalance ==
    /\ pc = "reorder"
    /\ LET r == ReorderResult(y_whole, patients_whole)
       IN  IF r.err # "none"
           THEN /\ err' = r.err
                /\ pc' = "reorder_raised"
                /\ UNCHANGED <<new_x, new_y, new_patients, numpatients0, numpatients1>>
           ELSE /\ new_x' = Reordered(x_whole, r.order)
                /\ new_y' = Reordered(y_whole, r.order)
                /\ new_patients' = Reordered(patients_whole, r.order)
                /\ numpatients0' = r.n0
                /\ numpatients1' = r.n1
                /\ pc' = "reorder_done"
                /\ err' = err
    /\ UNCHANGED <<x_whole, y_whole, patients_whole, num_patients_per_label, adjacent,
                   num_patients, num_folds, folds_indices, fold, idx0, idx1,
                   num_patients_te, num_patients_tr, test_data, test_mask_spheres,
                   te_idx, te_t_idx, tr_idx, drvVars>>
    /\ UNCHANGED gridVars
    /\ UNCHANGED logVars
    /\ UNCHANGED statVars

(* The samples main hands over: patient-contiguous (sorted at line 2117),  *)
(* labels still plain 0/1 before line 2137.                                *)
ContiguousPatientSeqs == {ps \in SeqsUpTo(Patients, MaxLen) : Len(ps) > 0 /\ Contiguous(ps)}

(* The dataset of the docstring (line 625): eight patients of one sample. *)
ExamplePatients == <<1, 2, 3, 4, 5, 6, 7, 8>>
ExampleLabels == <<0, 1, 0, 1, 0, 0, 0, 0>>

(* What the function may be called on: the sequences main hands over, any  *)
(* other short sequence (same-patient samples adjacent or not), and eight  *)
(* distinct patients.                                                      *)
ReorderPatientSeqs ==
    ContiguousPatientSeqs
        \cup {ps \in SeqsUpTo(Patients, MaxLen) : Len(ps) > 0}
        \cup {ExamplePatients}

(* The labels of a direct call: one row of two columns per sample, also    *)
(* when every sample has the same label.                                   *)
TwoColumnLabels(n) ==
    {[i \in 1..n |-> Categorical(l[i], 2)] : l \in [1..n -> Labels]}

InitReorder ==
    /\ patient_level_cv = TRUE
    /\ patients_whole \in ReorderPatientSeqs
    /\ \/ /\ pc = "categorical"
          /\ y_whole \in [1..Len(patients_whole) -> Labels]
       \/ /\ pc = "reorder"
          /\ y_whole \in TwoColumnLabels(Len(patients_whole))
    /\ x_whole = Tags(Len(patients_whole))
    /\ num_patients_per_label = None /\ adjacent = TRUE
    /\ new_x = <<>> /\ new_y = <<>> /\ new_patients = <<>>
    /\ numpatients0 = 0 /\ numpatients1 = 0
    /\ PlanIdle
    /\ DrvIdle
    /\ GridIdle
    /\ logs = EmptyLogs /\ old_data = EmptyLogs
    /\ StatsIdle

NextReorder == ToCategorical \/ ReorderMaintainingLabelBalance

SpecReorder == InitReorder /\ [][NextReorder]_vars

(* C5: for patient-contiguous input the reorderer returns a permutation of *)
(* the samples: the (patient, label) pairs and the label counts are        *)
(* unchanged and every patient's samples stay one run in their original    *)
(* internal order.                                                          *)
C5_ReorderIsPermutation ==
    (pc \in {"reorder_done", "reorder_raised"} /\ Contiguous(patients_whole)
        /\ \A i \in DOMAIN y_whole : Len(y_whole[i]) = 2) =>
        /\ pc = "reorder_done"
        /\ Len(new_x) = Len(x_whole)
        /\ Range(new_x) = Range(x_whole)
        /\ \A i \in DOMAIN new_x :
              /\ new_patients[i] = patients_whole[new_x[i]]
              /\ new_y[i] = y_whole[new_x[i]]
        /\ \A l \in Labels : CountOf(LabelColumn(new_y), l) = CountOf(LabelColumn(y_whole), l)
        /\ Contiguous(new_patients)
        /\ \A i, j \in DOMAIN new_x :
              (i < j /\ new_patients[i] = new_patients[j]) => new_x[i] < new_x[j]

C5_Witness ==
    /\ pc = "reorder_done"
    /\ new_patients # patients_whole
    /\ \E i \in DOMAIN new_patients : i > 1 /\ new_patients[i] = new_patients[i - 1]
    /\ numpatients0 >= 1 /\ numpatients1 >= 1

----------------------------------------------------------------------------
(* The training driver: the step loops of do_training_test (lines          *)
(* 1297-1464) and correct_old_runs (lines 1663-1860) with the retry loop   *)
(* around the external trainer flexible_neural_net.                        *)

(* line 1332 / 1732 *)
max_num_times == 3

(* The threshold 0.7 of lines 1342, 1349 and 1742, in hundredths *)
AccThreshold == 70

(* Training accuracies the external trainer may return: below, at and      *)
(* above the threshold.                                                    *)
Accs == {50, 70, 71}

(* Mutant: one attempt more than max_num_times. *)
RetryAgainInclusive(n) == n <= max_num_times

(* The loop condition of lines 1333 and 1733 *)
RetryAgain(n) == n < max_num_times

(* line 1342 / 1742: if aTr > 0.7: break *)
Accepted(a) == a > AccThreshold

(* What one f.write appends to unknown_error.txt: the training size,       *)
(* followed by a newline at line 1351 and by nothing at line 1750.         *)
Entry(size, newline) == [size |-> size, newline |-> newline]

(* lines 1670-1671: the step reuses old_data *)
UsesOldData(i) ==
    func = "correct_old_runs" /\ num_patients_tr[i + 1] \notin corrections

(* x_train_cv = x_whole[te_idx:idx] (lines 1305, 1722) is empty *)
EmptyTrainingSlice(i) ==
    LET stop == IF tr_idx[i + 1] > Len(patients_whole)
                THEN Len(patients_whole) ELSE tr_idx[i + 1]
    IN  stop <= te_idx

(* lines 1670-1716: a step that is not to be corrected copies the saved    *)
(* metrics and continues with the next step; the trainer is not called.    *)
UseOldData ==
    /\ pc = "steps"
    /\ step < Len(tr_idx)
    /\ UsesOldData(step)
    /\ IF step + 1 > Len(old_data.all)
       THEN /\ err' = "IndexError"
            /\ pc' = "raised"
            /\ UNCHANGED <<step, logs>>
       ELSE /\ step' = step + 1
            /\ logs' = Merged(logs, old_data.all[step + 1],
                              old_data.pat_true_cv[step + 1],
                              old_data.pat_pred_cv[step + 1],
                              old_data.rocs[step + 1])
            /\ UNCHANGED <<pc, err>>
    /\ UNCHANGED <<capVars, num_patients, num_folds, folds_indices, fold, idx0, idx1,
                   num_patients_te, num_patients_tr, test_data, test_mask_spheres,
                   te_idx, te_t_idx, tr_idx,
                   func, corrections, num_times, aTr,
                   attempts, model, error_file, error_mark>>
    /\ UNCHANGED gridVars
    /\ UNCHANGED old_data
    /\ UNCHANGED statVars

(* lines 1297-1332 and 1663-1732: the step splits the data and enters the  *)
(* retry loop.  With test_mask_spheres, x_train_cv[0] (line 1321) raises   *)
(* IndexError on an empty training slice.                                  *)
StepBegin ==
    /\ pc = "steps"
    /\ step < Len(tr_idx)
    /\ ~UsesOldData(step)
    /\ IF test_mask_spheres /\ EmptyTrainingSlice(step)
       THEN /\ err' = "IndexError"
            /\ pc' = "raised"
            /\ UNCHANGED <<num_times, attempts, error_mark>>
       ELSE /\ num_times' = 0
            /\ attempts' = <<>>
            /\ error_mark' = Len(error_file)
            /\ pc' = "retry"
            /\ err' = err
    /\ UNCHANGED <<capVars, num_patients, num_folds, folds_indices, fold, idx0, idx1,
                   num_patients_te, num_patients_tr, test_data, test_mask_spheres,
                   te_idx, te_t_idx, tr_idx,
                   func, corrections, step, aTr, model, error_file>>
    /\ UNCHANGED gridVars
    /\ UNCHANGED logVars
    /\ UNCHANGED statVars

(* One pass of the while loop, lines 1333-1348 and 1733-1750: one call of  *)
(* the trainer, which hands back an accuracy and a model.  In              *)
(* correct_old_runs the else branch also appends to unknown_error.txt      *)
(* (lines 1749-1750).                                                      *)
TrainAttempt ==
    /\ pc = "retry"
    /\ num_times' = num_times + 1
    /\ \E a \in Accs :
          /\ aTr' = a
          /\ attempts' = Append(attempts, a)
          /\ model' = num_times + 1
          /\ error_file' = IF ~Accepted(a) /\ func = "correct_old_runs"
                           THEN Append(error_file, Entry(num_patients_tr[step + 1], FALSE))
                           ELSE error_file
          /\ pc' = IF Accepted(a) \/ ~RetryAgain(num_times + 1)
                   THEN "after_retry" ELSE "retry"
    /\ UNCHANGED <<capVars, planVars, func, corrections, step, error_mark>>
    /\ trainer_calls' = trainer_calls + 1
    /\ UNCHANGED <<args_correction, do_cross_val, correction, num_patient_tr, grid,
                   comb_i, had_pdf, all_data_comb, all_data, messages, pdf_files,
                   results_files, summary_file, location_exists, run>>
    /\ UNCHANGED logVars
    /\ UNCHANGED statVars

(* lines 1349-1351: after the loop do_training_test logs the training size *)
(* when the last accuracy is <= 0.7.  correct_old_runs has no such         *)
(* statement (line 1752 is guarded by "and False").                        *)
AfterRetry ==
    /\ pc = "after_retry"
    /\ error_file' = IF func = "do_training_test" /\ aTr <= AccThreshold
                     THEN Append(error_file, Entry(num_patients_tr[step + 1], TRUE))
                     ELSE error_file
    /\ pc' = "step_rest"
    /\ UNCHANGED <<capVars, planVars, func, corrections, step, num_times, aTr,
                   attempts, model, error_mark>>
    /\ UNCHANGED gridVars
    /\ UNCHANGED logVars
    /\ UNCHANGED statVars

(* lines 1353-1464 and 1752-1860: the rest of the step evaluates the model *)
(* left by the last attempt and the loop goes to the next step.            *)
StepRest ==
    /\ pc = "step_rest"
    /\ step' = step + 1
    /\ pc' = "steps"
    /\ UNCHANGED <<capVars, planVars, func, corrections, num_times, aTr,
                   attempts, model, error_file, error_mark>>
    /\ UNCHANGED gridVars
    /\ logs' = Merged(logs, Metrics(step), Percentages("pred", step),
                    Percentages("true", step), Metrics(step))
    /\ UNCHANGED old_data
    /\ UNCHANGED statVars

(* the step loop is exhausted: the accuracy histories are averaged (lines   *)
(* 1465-1466, 1861-1862; historic_acc is still None after a loop of no     *)
(* steps, and None / num_folds raises TypeError), the figures PDF is saved *)
(* (lines 1597, 1990) and the function returns (lines 1601, 1994)          *)
DriverReturn ==
    /\ pc = "steps"
    /\ step >= Len(tr_idx)
    /\ IF Len(tr_idx) = 0
       THEN /\ err' = "TypeError"
            /\ pc' = "raised"
            /\ UNCHANGED pdf_files
       ELSE /\ pc' = "done"
            /\ pdf_files' = pdf_files \cup {Comb}
            /\ UNCHANGED err
    /\ UNCHANGED <<capVars, num_patients, num_folds, folds_indices, fold, idx0, idx1,
                   num_patients_te, num_patients_tr, test_data, test_mask_spheres,
                   te_idx, te_t_idx, tr_idx, drvVars>>
    /\ UNCHANGED <<args_correction, do_cross_val, correction, num_patient_tr, grid,
                   comb_i, had_pdf, all_data_comb, all_data, trainer_calls, messages,
                   results_files, summary_file, location_exists, run>>
    /\ UNCHANGED logVars
    /\ prompts' = IF pc' # "raised" /\ args_plot THEN prompts \cup {"figures"} ELSE prompts
    /\ UNCHANGED <<args_plot, args_plot_slices, args_plot_volume_histogram,
                   biased_data, patients, stats_i, curveVars, sizeVars, modeVars>>
    /\ IF Len(tr_idx) = 0
       THEN UNCHANGED figVars
       ELSE LET cleared == CloseAll(figures)
                drawn == cleared \cup Drawn(func, Comb)
            IN  /\ pdf_pages' = SavedPdf(pdf_pages, Comb, drawn)
                /\ figures' = IF args_plot THEN CloseAll(drawn) ELSE drawn
                /\ closed' = closed \cup (figures \ cleared) \cup (drawn \ figures')

(* Strictly increasing training sizes, as main builds them (lines          *)
(* 2234-2244).                                                             *)
TrainingSizes ==
    {trs \in SeqsUpTo(1..MaxTrSize, MaxTrLen) :
        Len(trs) > 0 /\ \A i \in DOMAIN trs : i > 1 => trs[i - 1] < trs[i]}

DriverPatients == {<<1, 2, 2, 3, 4>>, <<1, 1>>}

(* The aggregates a completed do_training_test run r over the sizes trs    *)
(* leaves in its results file (lines 1387-1464, 1601).                     *)
CachedLogs(trs, r) ==
    [all |-> [i \in 1..Len(trs) |-> [step |-> i - 1, size |-> trs[i], run |-> r]],
     pat_pred_percentages |->
         [i \in 1..Len(trs) |-> [kind |-> "pred", step |-> i - 1, run |-> r]],
     pat_true_percentages |->
         [i \in 1..Len(trs) |-> [kind |-> "true", step |-> i - 1, run |-> r]],
     pat_true_cv |->
         [i \in 1..Len(trs) |-> << [kind |-> "pred", step |-> i - 1, run |-> r] >>],
     pat_pred_cv |->
         [i \in 1..Len(trs) |-> << [kind |-> "true", step |-> i - 1, run |-> r] >>],
     rocs |-> [i \in 1..Len(trs) |-> [step |-> i - 1, size |-> trs[i], run |-> r]]]

InitDriver ==
    /\ patient_level_cv = TRUE
    /\ pc = "tt"
    /\ patients_whole \in DriverPatients
    /\ num_patients = Cardinality(Range(patients_whole))
    /\ x_whole = <<>> /\ y_whole = <<>>
    /\ num_patients_per_label = None /\ adjacent = TRUE
    /\ new_x = <<>> /\ new_y = <<>> /\ new_patients = <<>>
    /\ numpatients0 = 0 /\ numpatients1 = 0
    /\ num_folds = 0 /\ folds_indices = <<>> /\ fold = 0 /\ idx0 = 0 /\ idx1 = 0
    /\ te_idx = 0 /\ te_t_idx = 0 /\ tr_idx = <<>> /\ err = "none"
    /\ num_patients_te \in 1..MaxTe
    /\ num_patients_tr \in TrainingSizes
    /\ \/ /\ func = "do_training_test"
          /\ test_data \in TestDataChoices
          /\ test_mask_spheres \in BOOLEAN
          /\ corrections = {}
          /\ old_data = EmptyLogs
       \/ /\ func = "correct_old_runs"
          /\ test_data = <<>> /\ test_mask_spheres = FALSE
          /\ corrections \in SUBSET (1..MaxTrSize)
          /\ old_data =
                 LET te == ClampedTestIndex(patients_whole, num_patients_te)
                     tr == ClampedTrainIndices(patients_whole, te, num_patients_tr)
                 IN  CachedLogs(Truncated(num_patients_tr, tr), 0)
    /\ step = 0 /\ num_times = 0 /\ aTr = 0 /\ attempts = <<>> /\ model = 0
    /\ error_file = <<>> /\ error_mark = 0
    /\ GridIdle
    /\ logs = EmptyLogs
    /\ StatsIdle

NextDriver ==
    \/ TTPlan \/ COPlan
    \/ UseOldData \/ StepBegin \/ TrainAttempt \/ AfterRetry \/ StepRest
    \/ DriverReturn

SpecDriver == InitDriver /\ [][NextDriver]_vars

(* The current step has left its retry loop. *)
RetryLoopLeft == pc \in {"after_retry", "step_rest"}

AllAttemptsFailed ==
    Len(attempts) = max_num_times /\ \A k \in DOMAIN attempts : ~Accepted(attempts[k])

(* C9: every step that trains calls the trainer at least once and at most  *)
(* 3 times: the loop is left at the first attempt with accuracy > 0.7, or  *)
(* after exactly 3 attempts that all returned <= 0.7, and in both cases    *)
(* the step goes on, without an exception, with the model of the last      *)
(* attempt.                                                                *)
C9_BoundedRetry ==
    /\ pc = "retry" =>
          /\ Len(attempts) < 3
          /\ \A k \in DOMAIN attempts : attempts[k] <= 70
    /\ RetryLoopLeft =>
          /\ Len(attempts) >= 1 /\ Len(attempts) <= 3
          /\ num_times = Len(attempts)
          /\ \A k \in 1..(Len(attempts) - 1) : attempts[k] <= 70
          /\ Last(attempts) > 70 \/ Len(attempts) = 3
          /\ aTr = Last(attempts)
          /\ model = Len(attempts)
          /\ err = "none"

C9_Witness ==
    /\ pc = "step_rest"
    /\ attempts = <<50, 50, 50>>
    /\ model = 3
    /\ err = "none"

(* The entries unknown_error.txt gained during the current step. *)
EntriesOfStep == SubSeq(error_file, error_mark + 1, Len(error_file))

(* C10: in do_training_test and in correct_old_runs alike, a step adds to  *)
(* unknown_error.txt exactly one entry, naming its training size, when all *)
(* 3 attempts failed the accuracy test, and no entry otherwise.            *)
C10_OneEntryIffAllFailed ==
    pc = "step_rest" =>
        IF AllAttemptsFailed
        THEN /\ Len(EntriesOfStep) = 1
             /\ EntriesOfStep[1].size = num_patients_tr[step + 1]
        ELSE EntriesOfStep = <<>>

(* What the code does: the full run logs once, after the loop; the re-run  *)
(* logs once per failed attempt, inside the loop.                          *)
FailedAttempts == Cardinality({k \in DOMAIN attempts : ~Accepted(attempts[k])})

ErrorLogPerFunction ==
    pc = "step_rest" =>
        /\ \A k \in DOMAIN EntriesOfStep :
              EntriesOfStep[k].size = num_patients_tr[step + 1]
        /\ func = "do_training_test" =>
              /\ Len(EntriesOfStep) = (IF AllAttemptsFailed THEN 1 ELSE 0)
              /\ \A k \in DOMAIN EntriesOfStep : EntriesOfStep[k].newline
        /\ func = "correct_old_runs" =>
              /\ Len(EntriesOfStep) = FailedAttempts
              /\ \A k \in DOMAIN EntriesOfStep : ~EntriesOfStep[k].newline

----------------------------------------------------------------------------
(* main: the grid of hyperparameter combinations (lines 2205-2441)         *)

(* itertools.product (line 2267): the last list varies fastest *)
RECURSIVE Product(_)
Product(lists) ==
    IF lists = <<>> THEN << <<>> >>
    ELSE LET rest == Product(Tail(lists))
         IN  Flatten([i \in DOMAIN Head(lists) |->
                        [j \in DOMAIN rest |-> <<Head(lists)[i]>> \o rest[j]]])

(* lines 2208-2231: the lists of filters, units, num_convolutions,         *)
(* dropout1 and dropout2 (dropouts in hundredths) for the flags            *)
(* args.filters and args.dropout2, the other flags unset                   *)
GridLists(args_filters, args_dropout2) ==
    << IF args_filters THEN <<16, 64, 256>> ELSE <<16>>,
       <<64>>, <<2>>, <<0>>,
       IF args_dropout2 THEN <<0, 25>> ELSE <<0>> >>

(* lines 2234-2244: the training sizes double from min_size up to size *)
RECURSIVE SizeSequence(_, _)
SizeSequence(n, size) ==
    IF n > size THEN <<>> ELSE <<n>> \o SizeSequence(2 * n, size)

(* lines 2247-2255: the correction list as a dictionary; num_tr None       *)
(* (written {None}) stands for every training size                         *)
correction_ht ==
    [cmb \in {correction[k][1] : k \in DOMAIN correction} |->
        UNION {IF correction[k][2] = {None} THEN Range(num_patient_tr) ELSE correction[k][2]
               : k \in {m \in DOMAIN correction : correction[m][1] = cmb}}]

(* all_data_comb = (comb, *params): the combination and the results of the *)
(* call that produced them                                                 *)
Results(c, f) == [comb |-> c, func |-> f, run |-> run, logs |-> logs]

(* Mutant: the artifact is never found, every combination is run again. *)
ArtifactNeverFound(c) == FALSE

(* Mutant: the artifact test of line 2287 looks at the results pickle. *)
ArtifactIsResultsFile(c) == c \in DOMAIN results_files

(* line 2287: os.path.isfile(sublocation + "/" + pdf_name) *)
ArtifactExists(c) == c \in pdf_files

(* Mutant: the flag args.correction is not looked at. *)
NeedsCorrectionWithoutFlag(c) == c \in DOMAIN correction_ht

(* line 2316: args.correction and comb in correction_ht *)
NeedsCorrection(c) == args_correction /\ c \in DOMAIN correction_ht

(* lines 2267-2337 up to the call: the next combination is reached, its    *)
(* artifact looked up, and either a training function is entered, or the   *)
(* combination is skipped and its saved results, if any, are loaded.       *)
GridReach ==
    /\ pc = "grid"
    /\ comb_i < Len(grid)
    /\ comb_i' = comb_i + 1
    /\ trainer_calls' = 0
    /\ LET c == grid[comb_i + 1]
       IN  /\ had_pdf' = (c \in pdf_files)
           /\ IF ~ArtifactExists(c)
              THEN /\ IF do_cross_val
                      THEN pc' = "cv" /\ func' = "do_cross_validation"
                      ELSE pc' = "tt" /\ func' = "do_training_test"
                   /\ num_patients_tr' = num_patient_tr
                   /\ corrections' = {}
                   /\ UNCHANGED <<messages, all_data_comb, err>>
              ELSE /\ messages' = messages \cup {c}
                   /\ IF c \in DOMAIN results_files
                      THEN /\ all_data_comb' = results_files[c]
                           /\ IF NeedsCorrection(c)
                              THEN IF c # results_files[c].comb
                                   THEN /\ err' = "Exception"
                                        /\ pc' = "raised"
                                        /\ UNCHANGED <<func, num_patients_tr, corrections>>
                                   ELSE /\ pc' = "tt"
                                        /\ func' = "correct_old_runs"
                                        /\ num_patients_tr' = num_patient_tr
                                        /\ corrections' = correction_ht[c]
                                        /\ err' = err
                              ELSE /\ pc' = "grid_collect"
                                   /\ UNCHANGED <<func, num_patients_tr, corrections, err>>
                      ELSE /\ all_data_comb' = NoResults
                           /\ pc' = "grid_collect"
                           /\ UNCHANGED <<func, num_patients_tr, corrections, err>>
    /\ UNCHANGED <<capVars, num_patients, num_folds, folds_indices, fold, idx0, idx1,
                   num_patients_te, test_data, test_mask_spheres, te_idx, te_t_idx, tr_idx,
                   step, num_times, aTr, attempts, model, error_file, error_mark,
                   args_correction, do_cross_val, correction, num_patient_tr, grid,
                   all_data, pdf_files, results_files, summary_file, location_exists, run>>
    /\ old_data' = IF pc' = "tt" /\ func' = "correct_old_runs"
                   THEN results_files[grid[comb_i + 1]].logs ELSE old_data
    /\ UNCHANGED logs
    /\ UNCHANGED statVars

(* lines 2303-2305 and 2330-2333: the training function has returned and   *)
(* its results are pickled to the combination's results file.              *)
SaveResults ==
    /\ pc \in {"done", "cv_done"}
    /\ all_data_comb' = Results(Comb, func)
    /\ results_files' = [c \in DOMAIN results_files \cup {Comb} |->
                            IF c = Comb THEN Results(Comb, func) ELSE results_files[c]]
    /\ pc' = "grid_collect"
    /\ UNCHANGED <<capVars, planVars, drvVars,
                   args_correction, do_cross_val, correction, num_patient_tr, grid,
                   comb_i, had_pdf, all_data, trainer_calls, messages, pdf_files,
                   summary_file, location_exists, run>>
    /\ UNCHANGED logVars
    /\ UNCHANGED statVars

(* The progress report of lines 2343-2344: the format string has two       *)
(* replacement fields and str.format receives one argument (the second     *)
(* value is passed to print), which raises IndexError.                     *)
ProgressFields == 2
ProgressArguments == 1

(* lines 2338-2344, and the statements after the loop (lines 2346-2441)    *)
(* when the last iteration completes: the results of the combination join  *)
(* all_data, the progress report is printed, and after the last            *)
(* combination all_data is pickled to the global results file.             *)
GridCollect ==
    /\ pc = "grid_collect"
    /\ all_data' = IF all_data_comb # NoResults THEN Append(all_data, all_data_comb)
                   ELSE all_data
    /\ IF ProgressArguments < ProgressFields
       THEN /\ err' = "IndexError"
            /\ pc' = "raised"
            /\ UNCHANGED summary_file
       ELSE /\ err' = err
            /\ IF comb_i < Len(grid)
               THEN pc' = "grid" /\ UNCHANGED summary_file
               ELSE pc' = "main_done" /\ summary_file' = <<all_data'>>
    /\ UNCHANGED <<capVars, num_patients, num_folds, folds_indices, fold, idx0, idx1,
                   num_patients_te, num_patients_tr, test_data, test_mask_spheres,
                   te_idx, te_t_idx, tr_idx, drvVars,
                   args_correction, do_cross_val, correction, num_patient_tr, grid,
                   comb_i, had_pdf, all_data_comb, trainer_calls, messages, pdf_files,
                   results_files, location_exists, run>>
    /\ UNCHANGED logVars
    /\ UNCHANGED statVars

(* Number of times the program is started on one output folder *)
MaxRuns == 3

(* The process ends (it returned, raised or was interrupted at any point)  *)
(* and the program is started again with the same arguments and location:  *)
(* the files stay, the variables start afresh.                             *)
Restart ==
    /\ pc \in {"grid", "grid_collect", "cv", "cv_fold", "cv_done", "tt", "steps", "retry",
               "after_retry", "step_rest", "done", "raised", "main_done"}
    /\ run < MaxRuns
    /\ run' = run + 1
    /\ pc' = "grid"
    /\ folds_indices' = <<>> /\ fold' = 0 /\ idx0' = 0 /\ idx1' = 0
    /\ num_patients_tr' = <<>>
    /\ te_idx' = 0 /\ te_t_idx' = 0 /\ tr_idx' = <<>> /\ err' = "none"
    /\ func' = "none" /\ corrections' = {} /\ step' = 0 /\ num_times' = 0
    /\ aTr' = 0 /\ attempts' = <<>> /\ model' = 0 /\ error_mark' = 0
    /\ comb_i' = 0 /\ had_pdf' = FALSE /\ all_data_comb' = NoResults /\ all_data' = <<>>
    /\ trainer_calls' = 0 /\ messages' = {}
    /\ UNCHANGED <<capVars, num_patients, num_folds, num_patients_te, test_data,
                   test_mask_spheres, error_file,
                   args_correction, do_cross_val, correction, num_patient_tr, grid,
                   pdf_files, results_files, summary_file, location_exists>>
    /\ logs' = EmptyLogs /\ old_data' = EmptyLogs
    /\ figures' \in InitialFigures /\ closed' = {}
    /\ UNCHANGED <<args_plot, args_plot_slices, args_plot_volume_histogram,
                   biased_data, patients, stats_i, prompts, pdf_pages,
                   curveVars, sizeVars, modeVars>>

GridPatients == <<1, 2, 2, 3, 4>>

(* Correction lists given to main (lines 2448-2530 show the shape):        *)
(* [combination, training sizes or None] pairs.                            *)
CorrectionChoices(g) ==
    { <<>>,
      << <<g[1], {None}>> >>,
      << <<g[1], {1}>> >>,
      << <<g[1], {2}>>, <<g[1], {1}>> >>,
      << <<Last(g), {1}>> >> }

InitGrid ==
    /\ patient_level_cv = TRUE
    /\ pc = "grid"
    /\ patients_whole = GridPatients
    /\ num_patients = Cardinality(Range(patients_whole))
    /\ x_whole = <<>> /\ y_whole = <<>>
    /\ num_patients_per_label = None /\ adjacent = TRUE
    /\ new_x = <<>> /\ new_y = <<>> /\ new_patients = <<>>
    /\ numpatients0 = 0 /\ numpatients1 = 0
    /\ do_cross_val \in BOOLEAN
    /\ num_folds \in IF do_cross_val THEN 2..MaxFolds ELSE {MaxFolds}
    /\ folds_indices = <<>> /\ fold = 0 /\ idx0 = 0 /\ idx1 = 0
    /\ num_patients_te \in 1..MaxTe
    /\ num_patients_tr = <<>>
    /\ test_data = <<>> /\ test_mask_spheres = FALSE
    /\ te_idx = 0 /\ te_t_idx = 0 /\ tr_idx = <<>> /\ err = "none"
    /\ DrvIdle
    /\ num_patient_tr \in {SizeSequence(m, s) : m \in 1..MaxTrSize, s \in 2..MaxTrSize}
    /\ grid \in {Product(GridLists(b, b)) : b \in BOOLEAN}
    /\ args_correction \in BOOLEAN
    /\ correction \in IF args_correction THEN CorrectionChoices(grid)
                     ELSE {<<>>, << <<grid[1], {None}>> >>}
    /\ comb_i = 0 /\ had_pdf = FALSE /\ all_data_comb = NoResults /\ all_data = <<>>
    /\ trainer_calls = 0 /\ messages = {}
    /\ pdf_files = {} /\ results_files = <<>> /\ summary_file = <<>>
    /\ location_exists = TRUE /\ run = 1
    /\ logs = EmptyLogs /\ old_data = EmptyLogs
    /\ StatsIdle

NextGrid ==
    \/ GridReach \/ SaveResults \/ GridCollect \/ Restart
    \/ CVPlan \/ CVFold \/ CVReturn
    \/ TTPlan \/ COPlan
    \/ UseOldData \/ StepBegin \/ TrainAttempt \/ AfterRetry \/ StepRest
    \/ DriverReturn

SpecGrid == InitGrid /\ [][NextGrid]_vars

(* The grid loop is inside an iteration, or has just left it by an         *)
(* exception.                                                              *)
InIteration ==
    /\ comb_i >= 1
    /\ pc \in {"cv", "cv_fold", "cv_done", "tt", "steps", "retry", "after_retry",
               "step_rest", "done", "grid_collect", "raised"}

IterationOver == comb_i >= 1 /\ pc \in {"grid_collect", "raised"}

TrainingEntered == func \in {"do_cross_validation", "do_training_test", "correct_old_runs"}

C12_SkipIsIdempotent ==
    [][(~args_correction /\ had_pdf' /\ comb_i' >= 1) =>
          /\ trainer_calls' = 0
          /\ results_files' = results_files
          /\ pdf_files' = pdf_files]_vars

C12_Witness ==
    /\ ~args_correction
    /\ run = 3
    /\ pc \in {"grid_collect", "raised"}
    /\ had_pdf /\ trainer_calls = 0
    /\ Comb \in DOMAIN results_files /\ results_files[Comb].run = 1

(* C13 as stated: at every point each combination whose PDF is on disk     *)
(* also has its results file on disk, and a run never skips a combination  *)
(* without loading its results.                                            *)
C13_PdfImpliesResultsFile ==
    /\ \A c \in pdf_files : c \in DOMAIN results_files
    /\ (pc = "grid_collect" /\ had_pdf) => all_data_comb # NoResults

(* The results file of the current combination was written by this run. *)
ResultsWrittenThisRun ==
    Comb \in DOMAIN results_files /\ results_files[Comb].run = run

(* C14: a combination whose PDF exists is trained again (correct_old_runs  *)
(* entered, results file rewritten) only with correction mode on and the   *)
(* combination a key of the correction set; other combinations with a PDF  *)
(* are never trained again nor their results file rewritten; a             *)
(* combination without PDF is run in full, not corrected.                  *)
C14_CorrectionOnlyWhenSelected ==
    InIteration =>
        /\ func = "correct_old_runs" =>
              /\ had_pdf /\ args_correction /\ Comb \in DOMAIN correction_ht
              /\ corrections = correction_ht[Comb]
        /\ (had_pdf /\ ~(args_correction /\ Comb \in DOMAIN correction_ht)) =>
              /\ ~TrainingEntered
              /\ trainer_calls = 0
              /\ ~ResultsWrittenThisRun
        /\ (had_pdf /\ ResultsWrittenThisRun) =>
              /\ func = "correct_old_runs"
              /\ results_files[Comb].func = "correct_old_runs"
        /\ ~had_pdf =>
              /\ func = (IF do_cross_val THEN "do_cross_validation" ELSE "do_training_test")
              /\ ResultsWrittenThisRun => results_files[Comb].func = func

C14_Witness ==
    /\ pc = "grid_collect"
    /\ had_pdf /\ args_correction /\ Comb \in DOMAIN correction_ht
    /\ func = "correct_old_runs"
    /\ trainer_calls >= 1
    /\ ResultsWrittenThisRun


(***************************************************************************)
(* C15.  The positional merge of correct_old_runs.                         *)
(***************************************************************************)

(* correct_old_runs has returned to main, which still holds the cache it   *)
(* passed as old_data                                                      *)
CorrectionReturned == pc = "done" /\ func = "correct_old_runs"

(* the step at Python index i was recomputed by the trainer in this run *)
Recomputed(i) ==
    /\ logs.all[i + 1] = Metrics(i)
    /\ logs.rocs[i + 1] = Metrics(i)
    /\ logs.pat_true_cv[i + 1] = Percentages("pred", i)
    /\ logs.pat_pred_cv[i + 1] = Percentages("true", i)

(* the step at Python index i equals position i of the cache *)
CopiedFromCache(i) ==
    /\ i + 1 <= Len(old_data.all)
    /\ logs.all[i + 1] = old_data.all[i + 1]
    /\ logs.rocs[i + 1] = old_data.rocs[i + 1]
    /\ logs.pat_true_cv[i + 1] = old_data.pat_true_cv[i + 1]
    /\ logs.pat_pred_cv[i + 1] = old_data.pat_pred_cv[i + 1]

(* the flat per-patient lists are the per-step lists laid end to end *)
PerPatientListsAgree ==
    /\ logs.pat_pred_percentages = Flatten(logs.pat_true_cv)
    /\ logs.pat_true_percentages = Flatten(logs.pat_pred_cv)

(* Every step that correct_old_runs produced is merged by position: a step *)
(* whose size is not selected is the cached step of the same position, a   *)
(* selected step is recomputed.                                            *)
MergeIsPositional ==
    CorrectionReturned =>
        /\ \A i \in 0..(Len(logs.all) - 1) :
              IF num_patients_tr[i + 1] \in corrections
              THEN Recomputed(i) ELSE CopiedFromCache(i)
        /\ Len(logs.rocs) = Len(logs.all)
        /\ Len(logs.pat_true_cv) = Len(logs.all)
        /\ Len(logs.pat_pred_cv) = Len(logs.all)
        /\ PerPatientListsAgree

(* C15: when correct_old_runs returns, every step whose size is not        *)
(* selected carries the cached metrics of the same position, every         *)
(* selected step carries metrics recomputed by the trainer, and the        *)
(* aggregates have as many steps as the cached ones.                       *)
C15_MergeKeepsStepCount ==
    CorrectionReturned =>
        /\ MergeIsPositional
        /\ Len(logs.all) = Len(old_data.all)

(* a correction that returned with both a copied and a recomputed step *)
MergeMixed ==
    /\ CorrectionReturned
    /\ \E i, j \in 0..(Len(logs.all) - 1) :
          /\ num_patients_tr[i + 1] \in corrections
          /\ num_patients_tr[j + 1] \notin corrections
          /\ old_data.all[j + 1].run # run


(***************************************************************************)
(* C16.  The grid loop of main.                                            *)
(***************************************************************************)

(* the process that is running takes a step (Restart starts another one) *)
SameRun == run' = run

(* C16: main takes the combinations of the product one after the other in  *)
(* product order, completes the iteration of each (the loop goes on to the *)
(* next combination, or ends after the last one), and after the last one   *)
(* writes one aggregate holding, in order, an entry for every combination  *)
(* with available results.                                                 *)
C16_EveryCombinationProcessed ==
    [][SameRun =>
        /\ (pc = "grid" /\ pc' # "raised") => comb_i' = comb_i + 1
        /\ pc = "grid_collect" =>
              IF comb_i < Len(grid)
              THEN pc' = "grid"
              ELSE pc' = "main_done" /\ summary_file' = <<all_data'>>]_vars


(***************************************************************************)
(* main from the capped dataset to the grid loop (lines 2116-2204), with   *)
(* the default organize_patients = False.                                  *)
(***************************************************************************)

(* Mutant: the check never finds a repeated patient. *)
RepeatedPatientsNever(tr, te) == FALSE

(* lines 2128-2133: some patient of np.unique(patients_whole) is in        *)
(* np.unique(patients_t_whole)                                             *)
RepeatedPatients(tr, te) == \E p \in Range(tr) : p \in Range(te)

(* lines 2119-2147: main rebinds the dataset to what the cap returned,     *)
(* raises on a patient shared with the test dataset, and converts the      *)
(* labels (np_utils.to_categorical raises IndexError for a label >=        *)
(* len(labels)).  The test dataset is not capped.                          *)
CheckPatients ==
    /\ pc = "limit_done"
    /\ x_whole' = new_x
    /\ patients_whole' = new_patients
    /\ LET num_classes == Cardinality(Range(new_y))
       IN  IF test_data # <<>> /\ RepeatedPatients(new_patients, test_data[1])
           THEN /\ err' = "Exception"
                /\ pc' = "main_raised"
                /\ y_whole' = new_y
                /\ UNCHANGED num_patients
           ELSE /\ num_patients' = Cardinality(Range(new_patients))
                /\ IF \E i \in DOMAIN new_y : new_y[i] >= num_classes
                   THEN /\ err' = "IndexError"
                        /\ pc' = "main_raised"
                        /\ y_whole' = new_y
                   ELSE /\ y_whole' = [i \in DOMAIN new_y |->
                                          Categorical(new_y[i], num_classes)]
                        /\ pc' = "main_checked"
                        /\ UNCHANGED err
    /\ UNCHANGED <<num_patients_per_label, adjacent, new_x, new_y, new_patients,
                   numpatients0, numpatients1,
                   num_folds, folds_indices, fold, idx0, idx1,
                   num_patients_te, num_patients_tr, test_data, test_mask_spheres,
                   te_idx, te_t_idx, tr_idx, drvVars, gridVars, logVars>>
    /\ UNCHANGED statVars

(* lines 2158-2204: with --plot_slices every slice shown waits for input   *)
(* (line 2166); the output folder is created (os.makedirs) and the         *)
(* arguments file written; the grid loop follows.                          *)
CreateFolder ==
    /\ pc = "main_checked"
    /\ location_exists' = TRUE
    /\ pc' = "grid"
    /\ UNCHANGED <<capVars, planVars, drvVars, logVars,
                   args_correction, do_cross_val, correction, num_patient_tr, grid,
                   comb_i, had_pdf, all_data_comb, all_data, trainer_calls, messages,
                   pdf_files, results_files, summary_file, run>>
    /\ prompts' = IF args_plot_slices /\ Len(x_whole) > 0
                  THEN prompts \cup {"slices"} ELSE prompts
    /\ UNCHANGED <<args_plot, args_plot_slices, args_plot_volume_histogram,
                   biased_data, patients, stats_i, curveVars, sizeVars, modeVars>>
    /\ IF args_plot_slices
       THEN LET cleared == CloseAll(figures)
                drawn == IF Len(x_whole) > 0 THEN cleared \cup Drawn("main", <<>>)
                                             ELSE cleared
            IN  /\ figures' = CloseAll(drawn)
                /\ closed' = closed \cup (figures \ cleared) \cup (drawn \ figures')
       ELSE UNCHANGED <<figures, closed>>
    /\ UNCHANGED pdf_pages

(* Training datasets as loaded (patients, labels): one with both labels    *)
(* and a patient of two samples, one with the single label 1.              *)
MainDatasets ==
    { << <<3, 1, 2, 2, 4>>, <<0, 0, 1, 1, 1>> >>,
      << <<1, 1>>, <<1, 1>> >> }

(* Patients of the test dataset: none supplied, disjoint from the training *)
(* patients, sharing patient 2, sharing patient 4.                         *)
MainTestChoices == {<<>>, << <<8, 8, 9>> >>, << <<2, 8>> >>, << <<4, 9>> >>}

InitMain ==
    /\ patient_level_cv = TRUE
    /\ pc = "limit"
    /\ \E d \in MainDatasets : patients_whole = d[1] /\ y_whole = d[2]
    /\ x_whole = Tags(Len(patients_whole))
    /\ num_patients_per_label \in {None, 1}
    /\ adjacent = FALSE
    /\ new_x = <<>> /\ new_y = <<>> /\ new_patients = <<>>
    /\ numpatients0 = 0 /\ numpatients1 = 0
    /\ num_patients = 0
    /\ do_cross_val \in BOOLEAN
    /\ num_folds = 2
    /\ folds_indices = <<>> /\ fold = 0 /\ idx0 = 0 /\ idx1 = 0
    /\ num_patients_te = 1
    /\ num_patients_tr = <<>>
    /\ test_data \in MainTestChoices /\ test_mask_spheres = FALSE
    /\ te_idx = 0 /\ te_t_idx = 0 /\ tr_idx = <<>> /\ err = "none"
    /\ DrvIdle
    /\ num_patient_tr = SizeSequence(1, 2)
    /\ grid = Product(GridLists(FALSE, FALSE))
    /\ args_correction \in BOOLEAN
    /\ correction = IF args_correction THEN << <<grid[1], {1}>> >> ELSE <<>>
    /\ comb_i = 0 /\ had_pdf = FALSE /\ all_data_comb = NoResults /\ all_data = <<>>
    /\ trainer_calls = 0 /\ messages = {}
    /\ pdf_files = {} /\ results_files = <<>> /\ summary_file = <<>>
    /\ location_exists = FALSE /\ run = 1
    /\ logs = EmptyLogs /\ old_data = EmptyLogs
    /\ args_plot \in BOOLEAN /\ args_plot_slices \in BOOLEAN
    /\ args_plot_volume_histogram = FALSE
    /\ biased_data = FALSE /\ patients = {} /\ stats_i = 0 /\ prompts = {}
    /\ figures \in InitialFigures /\ closed = {} /\ pdf_pages = <<>>
    /\ CurvesIdle /\ SizesIdle

NextMain ==
    \/ LimitNumberPatientsPerLabel \/ CheckPatients \/ CreateFolder
    \/ GridReach \/ SaveResults \/ GridCollect \/ Restart
    \/ CVPlan \/ CVFold \/ CVReturn
    \/ TTPlan \/ COPlan
    \/ UseOldData \/ StepBegin \/ TrainAttempt \/ AfterRetry \/ StepRest
    \/ DriverReturn

SpecMain == InitMain /\ [][NextMain]_vars

(* main got past the cap *)
CapApplied == pc \notin {"limit", "limit_done"}

(* the capped training dataset shares a patient with the supplied test     *)
(* dataset                                                                 *)
SharedPatient ==
    /\ test_data # <<>>
    /\ Range(new_patients) \cap Range(test_data[1]) # {}

OverlapRaised == pc = "main_raised" /\ err = "Exception"

NothingProduced ==
    /\ ~location_exists
    /\ comb_i = 0 /\ trainer_calls = 0 /\ func = "none"
    /\ pdf_files = {} /\ results_files = <<>> /\ error_file = <<>>

(* C17: with a test dataset that shares a patient with the capped training *)
(* dataset main raises its exception before the output folder exists and   *)
(* before any combination is trained; with disjoint patient sets (or no    *)
(* test dataset) that exception is not raised.                             *)
C17_OverlapRaisesBeforeOutput ==
    CapApplied =>
        /\ SharedPatient => OverlapRaised /\ NothingProduced
        /\ ~SharedPatient => ~OverlapRaised

(* the exception is raised for a patient that survived the cap *)
C17_Witness ==
    /\ OverlapRaised
    /\ num_patients_per_label # None
    /\ SharedPatient

(* a test dataset sharing only a patient that the cap removed goes on to   *)
(* training                                                                *)
CappedAwayPatientIsNoOverlap ==
    /\ test_data # <<>> /\ 4 \in Range(test_data[1])
    /\ num_patients_per_label = 1
    /\ trainer_calls > 0


(***************************************************************************)
(* C18.  The greedy rule of the reorderer.                                 *)
(***************************************************************************)

(* positions of the output where the samples of a patient start *)
UnitStarts ==
    SortedSeq({j \in DOMAIN new_patients :
                  j = 1 \/ new_patients[j] # new_patients[j - 1]})

(* the patients in the order of the output *)
PlacedPatients == [k \in DOMAIN UnitStarts |-> new_patients[UnitStarts[k]]]

(* their labels: column 1 of the first sample of each in the input *)
PlacedLabels == [k \in DOMAIN PlacedPatients |-> PatientLabel(PlacedPatients[k])[2]]

(* |n0*c1 - n1*c0| with the fractions c0 = C0/N, c1 = C1/N of the labels   *)
(* over all patients, multiplied by N                                      *)
Deviation(n0, n1) ==
    Abs(n0 * CountOf(PlacedLabels, 1) - n1 * CountOf(PlacedLabels, 0))

PlacedBefore(k, l) == Cardinality({m \in 1..(k - 1) : PlacedLabels[m] = l})

(* every patient of the output has the label whose addition gives the      *)
(* smaller deviation                                                       *)
GreedyRule ==
    \A k \in DOMAIN PlacedLabels :
        LET n0 == PlacedBefore(k, 0)
            n1 == PlacedBefore(k, 1)
        IN  IF PlacedLabels[k] = 0
            THEN Deviation(n0 + 1, n1) <= Deviation(n0, n1 + 1)
            ELSE Deviation(n0, n1 + 1) <= Deviation(n0 + 1, n1)

SameLabelInOriginalOrder ==
    \A k, m \in DOMAIN PlacedLabels :
        (k < m /\ PlacedLabels[k] = PlacedLabels[m]) =>
            FirstIndex(patients_whole, PlacedPatients[k])
                < FirstIndex(patients_whole, PlacedPatients[m])

SameLabelInIdOrder ==
    \A k, m \in DOMAIN PlacedLabels :
        (k < m /\ PlacedLabels[k] = PlacedLabels[m]) =>
            PlacedPatients[k] < PlacedPatients[m]

ExampleReordered ==
    (patients_whole = ExamplePatients /\ LabelColumn(y_whole) = ExampleLabels) =>
        LabelColumn(new_y) = <<0, 0, 1, 0, 0, 0, 1, 0>>

AllPatientsUnique == Cardinality(Range(patients_whole)) = Len(patients_whole)

RepeatedUnsortedReordered ==
    /\ pc = "reorder_done"
    /\ ~AllPatientsUnique
    /\ \E i \in DOMAIN patients_whole :
          i > 1 /\ patients_whole[i] < patients_whole[i - 1]
    /\ \E i, j \in DOMAIN y_whole : y_whole[i] # y_whole[j]


(***************************************************************************)
(* C19.  Ties of the greedy rule.                                          *)
(***************************************************************************)

(* before the k-th patient is placed both labels give the same deviation *)
TieAt(k) ==
    Deviation(PlacedBefore(k, 0) + 1, PlacedBefore(k, 1))
        = Deviation(PlacedBefore(k, 0), PlacedBefore(k, 1) + 1)

(* label l has a smaller share of the patients placed before the k-th than *)
(* of all patients: n_l / (n0 + n1) < C_l / N                              *)
UnderRepresentedAt(k, l) ==
    PlacedBefore(k, l) * Len(PlacedLabels)
        < CountOf(PlacedLabels, l) * (PlacedBefore(k, 0) + PlacedBefore(k, 1))

(* C19 as stated: on a tie the patient placed has the label that is        *)
(* under-represented.                                                      *)
C19_TieTakesUnderRepresented ==
    pc = "reorder_done" =>
        \A k \in DOMAIN PlacedLabels : \A l \in Labels :
            (TieAt(k) /\ UnderRepresentedAt(k, l)) => PlacedLabels[k] = l

(* C19 amended: on a tie the patient placed has label 0. *)
C19_TieTakesLabelZero ==
    pc = "reorder_done" =>
        \A k \in DOMAIN PlacedLabels : TieAt(k) => PlacedLabels[k] = 0

(* a tie at which label 1 was under-represented *)
C19_Witness ==
    /\ pc = "reorder_done"
    /\ \E k \in DOMAIN PlacedLabels : TieAt(k) /\ UnderRepresentedAt(k, 1)


(***************************************************************************)
(* C20.  The assertion of the reorderer on repeated patient ids.           *)
(***************************************************************************)

(* the reorderer was called on repeated patient ids and two-column labels, *)
(* and the call is over                                                    *)
RepeatedCallOver ==
    /\ pc \in {"reorder_done", "reorder_raised"}
    /\ ~AllPatientsUnique
    /\ \A i \in DOMAIN y_whole : Len(y_whole[i]) = 2

AssertionFailed ==
    /\ pc = "reorder_raised" /\ err = "AssertionError"
    /\ new_x = <<>> /\ new_y = <<>> /\ new_patients = <<>>

(* C20: on repeated patient ids the reorderer fails with an AssertionError *)
(* and returns nothing exactly when some patient's samples are not all     *)
(* adjacent; when every patient's samples form one run it returns.         *)
C20_AssertionIffNotAdjacent ==
    RepeatedCallOver =>
        /\ AssertionFailed <=> ~Contiguous(patients_whole)
        /\ Contiguous(patients_whole) => pc = "reorder_done"

(* the assertion failed on a patient whose samples are apart *)
C20_Witness ==
    /\ RepeatedCallOver
    /\ AssertionFailed
    /\ ~Contiguous(patients_whole)


(***************************************************************************)
(* C21.  The clamps of the sweep planner of do_training_test.              *)
(***************************************************************************)

(* the sizes as the caller requested them (main's num_patient_tr), which   *)
(* main builds strictly increasing                                         *)
RequestedIncreasing ==
    \A i, j \in DOMAIN num_patient_tr : i < j => num_patient_tr[i] < num_patient_tr[j]

(* patients left after the test partition *)
RemainingPatients == Cardinality(PatientsIn(te_idx, NumSamples))

(* some requested size is larger than the number of patients left *)
SizeNotAvailable ==
    \E k \in DOMAIN num_patient_tr : RemainingPatients < num_patient_tr[k]

(* lines 1216-1271 have run; the sphere experiment of lines 1273-1277      *)
(* rewrites their result                                                   *)
SweepPlannedPlain == SweepPlanned /\ ~test_mask_spheres

(* C21: the sweep planner clamps instead of failing.  With at most         *)
(* num_patients_te patients te_idx is the number of samples; when fewer    *)
(* patients remain than a requested size, the number of samples is the     *)
(* final entry of tr_idx and occurs once, the sizes kept are the requested *)
(* ones up to the clamped one and all larger ones are dropped; tr_idx is   *)
(* never empty.                                                            *)
C21_PlannerClamps ==
    (SweepPlannedPlain /\ Contiguous(patients_whole) /\ RequestedIncreasing) =>
        /\ err = "none"
        /\ (test_data = <<>> /\ num_patients <= num_patients_te) => te_idx = NumSamples
        /\ Len(tr_idx) >= 1
        /\ SizeNotAvailable =>
              /\ Last(tr_idx) = NumSamples
              /\ Cardinality({j \in DOMAIN tr_idx : tr_idx[j] = NumSamples}) = 1
              /\ num_patients_tr = SubSeq(num_patient_tr, 1, Len(tr_idx))
              /\ \A k \in DOMAIN num_patient_tr :
                    num_patient_tr[k] > Last(num_patients_tr) => k > Len(tr_idx)
              /\ \A k \in DOMAIN num_patient_tr :
                    RemainingPatients < num_patient_tr[k] => Len(tr_idx) <= k

(* a size was requested beyond the one the planner clamped at *)
C21_Witness ==
    /\ SweepPlannedPlain /\ RequestedIncreasing
    /\ test_data = <<>> /\ te_idx > 0
    /\ Len(num_patient_tr) > Len(tr_idx)
    /\ Last(tr_idx) = NumSamples

(* the data holds no more patients than the test partition asks for *)
TestPartitionClamped ==
    /\ SweepPlannedPlain /\ test_data = <<>>
    /\ 0 < num_patients /\ num_patients <= num_patients_te
    /\ te_idx = NumSamples /\ tr_idx = <<NumSamples>>


(***************************************************************************)
(* C22.  The partitions of the sweep hold the requested patients.          *)
(***************************************************************************)

(* the training partition of the step with boundary b (lines 1305-1307) *)
TrainingPatients(b) == PatientsIn(te_idx, b)

(* C22: without a separate test dataset and with enough patients the test  *)
(* partition [0, te_idx) holds exactly num_patients_te patients; every     *)
(* requested size n smaller than the number of patients after it has a     *)
(* boundary, the index where patient n + 1 of the training region begins,  *)
(* and its partition [te_idx, tr_idx[j]) holds exactly n patients; the     *)
(* training partitions are nested prefixes.                                *)
C22_PartitionsHoldRequestedPatients ==
    (SweepPlannedPlain /\ Contiguous(patients_whole) /\ RequestedIncreasing
        /\ test_data = <<>> /\ num_patients >= num_patients_te) =>
        /\ Cardinality(PatientsIn(0, te_idx)) = num_patients_te
        /\ \A j \in DOMAIN num_patient_tr :
              num_patient_tr[j] < RemainingPatients =>
                  /\ j \in DOMAIN tr_idx
                  /\ num_patients_tr[j] = num_patient_tr[j]
                  /\ Cardinality(TrainingPatients(tr_idx[j])) = num_patient_tr[j]
                  /\ tr_idx[j] < NumSamples
                  /\ patients_whole[tr_idx[j] + 1] \notin TrainingPatients(tr_idx[j])
        /\ \A i, j \in DOMAIN tr_idx :
              i < j => /\ tr_idx[i] <= tr_idx[j]
                       /\ TrainingPatients(tr_idx[i]) \subseteq TrainingPatients(tr_idx[j])

(* two sizes, both available, on patients of several samples *)
C22_Witness ==
    /\ SweepPlannedPlain /\ RequestedIncreasing /\ test_data = <<>>
    /\ te_idx > 0 /\ num_patients_te >= 1
    /\ Len(num_patient_tr) = 2 /\ Len(tr_idx) = 2
    /\ num_patient_tr[2] < RemainingPatients
    /\ NumSamples > num_patients
    /\ tr_idx[1] < tr_idx[2]


(***************************************************************************)
(* C23.  correct_old_runs against do_training_test on the split.           *)
(***************************************************************************)

(* correct_old_runs has planned its steps *)
CorrectionPlanned ==
    /\ func = "correct_old_runs"
    /\ pc \in {"steps", "retry", "after_retry", "step_rest", "done"}

(* what do_training_test derives from the same patients, test size and     *)
(* requested sizes (lines 1216-1271)                                       *)
TrainingTestTeIdx == ClampedTestIndex(patients_whole, num_patients_te)
TrainingTestTrIdx ==
    ClampedTrainIndices(patients_whole, TrainingTestTeIdx, num_patient_tr)

(* C23: correct_old_runs derives the same te_idx, the same tr_idx and the  *)
(* same truncated sizes as do_training_test on the same input, and with an *)
(* empty correction set it returns the cached aggregates, same length and  *)
(* same values.                                                            *)
C23_CorrectionSplitsLikeTrainingTest ==
    /\ CorrectionPlanned =>
          /\ te_idx = TrainingTestTeIdx
          /\ tr_idx = TrainingTestTrIdx
          /\ num_patients_tr = Truncated(num_patient_tr, TrainingTestTrIdx)
    /\ (CorrectionReturned /\ corrections = {}) => logs = old_data


(***************************************************************************)
(* calculate_dataset_statistics.main: the dataset is read and capped       *)
(* (read_dataset), the optional displays are shown, every sample is        *)
(* measured and the figures are saved.                                     *)
(***************************************************************************)

(* read_dataset after the cap (lines 100-146) and main up to the sample    *)
(* loop (lines 307-410): the labels are converted (IndexError for a label  *)
(* >= len(labels)); --plot_slices shows the slices without waiting;        *)
(* --plot_volume_histogram reads y[1] of every sample and waits for ENTER  *)
(* (line 393).                                                             *)
StatsLoad ==
    /\ pc = "limit_done"
    /\ x_whole' = new_x
    /\ patients_whole' = new_patients
    /\ LET num_classes == Cardinality(Range(new_y))
       IN  IF \E i \in DOMAIN new_y : new_y[i] >= num_classes
           THEN /\ err' = "IndexError"
                /\ pc' = "stats_raised"
                /\ y_whole' = new_y
                /\ UNCHANGED prompts
           ELSE /\ y_whole' = [i \in DOMAIN new_y |-> Categorical(new_y[i], num_classes)]
                /\ IF args_plot_volume_histogram
                   THEN IF Len(new_y) > 0 /\ num_classes < 2
                        THEN /\ err' = "IndexError"
                             /\ pc' = "stats_raised"
                             /\ UNCHANGED prompts
                        ELSE /\ prompts' = prompts \cup {"volumes"}
                             /\ pc' = "stats_loop"
                             /\ UNCHANGED err
                   ELSE /\ pc' = "stats_loop"
                        /\ UNCHANGED <<err, prompts>>
    /\ patients' = {} /\ biased_data' = FALSE /\ stats_i' = 0
    /\ UNCHANGED <<num_patients_per_label, adjacent, new_x, new_y, new_patients,
                   numpatients0, numpatients1,
                   num_patients, num_folds, folds_indices, fold, idx0, idx1,
                   num_patients_te, num_patients_tr, test_data, test_mask_spheres,
                   te_idx, te_t_idx, tr_idx, drvVars, gridVars, logVars,
                   args_plot, args_plot_slices, args_plot_volume_histogram, figVars,
                   curveVars, sizeVars, modeVars>>

(* One iteration of the loop of lines 411-449: a patient seen before is    *)
(* reported once by two calls of input() (lines 412-416), whatever the     *)
(* flags; int(y[1]) raises IndexError on a single label column.            *)
StatsSample ==
    /\ pc = "stats_loop"
    /\ stats_i < Len(x_whole)
    /\ LET p == patients_whole[stats_i + 1]
       IN  /\ IF p \in patients /\ ~biased_data
              THEN /\ prompts' = prompts \cup {"repeated_patient"}
                   /\ biased_data' = TRUE
              ELSE UNCHANGED <<prompts, biased_data>>
           /\ IF Len(y_whole[stats_i + 1]) < 2
              THEN /\ err' = "IndexError"
                   /\ pc' = "stats_raised"
                   /\ UNCHANGED <<patients, stats_i>>
              ELSE /\ patients' = patients \cup {p}
                   /\ stats_i' = stats_i + 1
                   /\ UNCHANGED <<pc, err>>
    /\ UNCHANGED <<capVars, num_patients, num_folds, folds_indices, fold, idx0, idx1,
                   num_patients_te, num_patients_tr, test_data, test_mask_spheres,
                   te_idx, te_t_idx, tr_idx, drvVars, gridVars, logVars,
                   args_plot, args_plot_slices, args_plot_volume_histogram, figVars,
                   curveVars, sizeVars, modeVars>>

(* lines 451-549: the figures are drawn and saved; with --plot each of the *)
(* two sets waits for ENTER (lines 521-522, 547-548).                      *)
StatsFigures ==
    /\ pc = "stats_loop"
    /\ stats_i >= Len(x_whole)
    /\ prompts' = IF args_plot THEN prompts \cup {"figures"} ELSE prompts
    /\ pc' = "stats_done"
    /\ UNCHANGED <<capVars, planVars, drvVars, gridVars, logVars,
                   args_plot, args_plot_slices, args_plot_volume_histogram,
                   biased_data, patients, stats_i, figVars, curveVars, sizeVars, modeVars>>

(* Datasets as stored: samples of up to NumPatientIds patients in any      *)
(* order, a patient possibly with several samples.                         *)
StatsPatientSeqs == {ps \in SeqsUpTo(Patients, MaxLen) : Len(ps) > 0}

InitStats ==
    /\ patient_level_cv = TRUE
    /\ pc = "limit"
    /\ patients_whole \in StatsPatientSeqs
    /\ y_whole \in [1..Len(patients_whole) -> Labels]
    /\ x_whole = Tags(Len(patients_whole))
    /\ num_patients_per_label \in {None, 1}
    /\ adjacent = TRUE
    /\ new_x = <<>> /\ new_y = <<>> /\ new_patients = <<>>
    /\ numpatients0 = 0 /\ numpatients1 = 0
    /\ PlanIdle
    /\ DrvIdle
    /\ GridIdle
    /\ logs = EmptyLogs /\ old_data = EmptyLogs
    /\ args_plot \in BOOLEAN /\ args_plot_slices \in BOOLEAN
    /\ args_plot_volume_histogram \in BOOLEAN
    /\ biased_data = FALSE /\ patients = {} /\ stats_i = 0 /\ prompts = {}
    /\ figures = {} /\ closed = {} /\ pdf_pages = <<>>
    /\ CurvesIdle /\ SizesIdle

NextStats == LimitNumberPatientsPerLabel \/ StatsLoad \/ StatsSample \/ StatsFigures

SpecStats == InitStats /\ [][NextStats]_vars

(***************************************************************************)
(* C24.  Unattended runs.                                                  *)
(***************************************************************************)

DisplayFlagsUnset ==
    ~args_plot /\ ~args_plot_slices /\ ~args_plot_volume_histogram

(* C24: with the display flags unset no execution of either main reaches a *)
(* call of input(), for any dataset.                                       *)
C24_UnattendedNeverBlocks == DisplayFlagsUnset => prompts = {}


(***************************************************************************)
(* The canvas at the export of a combination's figures                     *)
(***************************************************************************)
(* the figures one of the three functions draws for combination c *)
DrawnFor(c) ==
    UNION {Drawn(f, c) : f \in {"do_cross_validation", "do_training_test",
                                "correct_old_runs"}}

(* C25: the PDF of every combination holds only figures drawn for that     *)
(* combination (plt.close("all") precedes the drawing), whether or not     *)
(* the plots are displayed and whatever was open before.                   *)
C25_PdfHoldsOwnFigures ==
    /\ DOMAIN pdf_pages = pdf_files
    /\ \A c \in DOMAIN pdf_pages : pdf_pages[c] # {} /\ pdf_pages[c] \subseteq DrawnFor(c)

(* a PDF was exported by a call that found a figure of earlier code open,  *)
(* without display, and its own figures are still open afterwards          *)
C25_Witness ==
    /\ StaleFigure \in closed
    /\ ~args_plot /\ ~args_plot_slices
    /\ pdf_files # {}
    /\ figures # {}

(* with display the canvas is empty again after the export *)
C25_WitnessDisplayed ==
    /\ StaleFigure \in closed
    /\ args_plot /\ ~args_plot_slices
    /\ pdf_files # {}
    /\ figures = {}


(***************************************************************************)
(* transform_curves_to_plot (lines 244-269)                                *)
(***************************************************************************)
(* Number of curves and of points of a curve *)
MaxCurves == 2
MaxPoints == 3

CurveValues == {1, 2}

(* the example of the docstring (line 247) *)
ExampleCurves == << <<1, 2, 3, 4>>, <<5, 6, 7, 8>> >>

(* The arguments y_pts: up to MaxCurves curves of up to MaxPoints points,  *)
(* and the example of the docstring.                                       *)
CurveInputs == SeqsUpTo(SeqsUpTo(CurveValues, MaxPoints), MaxCurves) \cup {ExampleCurves}

(* x_pts has the shape of y_pts (plot_line, line 318); each abscissa is    *)
(* told apart by its position.                                             *)
Abscissas(y) == [i \in DOMAIN y |-> [j \in DOMAIN y[i] |-> 10 * i + j]]

(* lines 255-260 and 264-269: new_y_pts[j].append(y) and                   *)
(* new_x_pts[j].append(x), or a new list when index j does not exist       *)
AppendAt(lists, j, y, x) ==
    IF j < Len(lists.y)
    THEN [y |-> [lists.y EXCEPT ![j + 1] = Append(@, y)],
          x |-> [lists.x EXCEPT ![j + 1] = Append(@, x)]]
    ELSE [y |-> Append(lists.y, <<y>>), x |-> Append(lists.x, <<x>>)]

(* the loop of lines 254-260 from index j of the row on *)
RECURSIVE RowPoints(_, _, _, _)
RowPoints(lists, yrow, xrow, j) ==
    IF j >= Len(yrow) THEN lists
    ELSE RowPoints(AppendAt(lists, j, yrow[j + 1], xrow[j + 1]), yrow, xrow, j + 1)

(* the loop of lines 262-269: while j < last_row the last point of the row *)
(* is appended at j + 1                                                    *)
RECURSIVE RowPadding(_, _, _, _, _)
RowPadding(lists, y, x, j, last_row) ==
    IF j < last_row
    THEN RowPadding(AppendAt(lists, j + 1, y, x), y, x, j + 1, last_row)
    ELSE lists

(* max([len(row) for row in y_pts]) (line 252) *)
LastRow(y) == CHOOSE n \in {Len(y[i]) : i \in DOMAIN y} : \A i \in DOMAIN y : Len(y[i]) <= n

(* The loop of lines 253-269 from row i on.  An empty row leaves j unbound *)
(* in the first iteration (UnboundLocalError at line 261) and makes        *)
(* x_pts[i][j] fail in a later one (IndexError).                           *)
RECURSIVE CurveRows(_, _, _, _)
CurveRows(lists, y, x, i) ==
    IF i >= Len(y) THEN [err |-> "none", y |-> lists.y, x |-> lists.x]
    ELSE LET yrow == y[i + 1]
             xrow == x[i + 1]
             n == Len(yrow)
         IN  IF n = 0
             THEN [err |-> IF i = 0 THEN "UnboundLocalError" ELSE "IndexError",
                   y |-> lists.y, x |-> lists.x]
             ELSE CurveRows(RowPadding(RowPoints(lists, yrow, xrow, 0),
                                       yrow[n], xrow[n], n - 1, LastRow(y)),
                            y, x, i + 1)

(* transform_curves_to_plot(y_pts, x_pts); max() of no rows raises         *)
(* ValueError                                                              *)
transform_curves_to_plot(y, x) ==
    IF Len(y) = 0 THEN [err |-> "ValueError", y |-> <<>>, x |-> <<>>]
    ELSE CurveRows([y |-> <<>>, x |-> <<>>], y, x, 0)

TransformCurves ==
    /\ pc = "curves"
    /\ LET r == transform_curves_to_plot(y_pts, x_pts)
       IN  /\ err' = r.err
           /\ pc' = IF r.err = "none" THEN "curves_done" ELSE "curves_raised"
           /\ new_y_pts' = IF r.err = "none" THEN r.y ELSE <<>>
           /\ new_x_pts' = IF r.err = "none" THEN r.x ELSE <<>>
    /\ UNCHANGED <<capVars, num_patients, num_folds, folds_indices, fold, idx0, idx1,
                   num_patients_te, num_patients_tr, test_data, test_mask_spheres,
                   te_idx, te_t_idx, tr_idx, drvVars, gridVars, logVars,
                   args_plot, args_plot_slices, args_plot_volume_histogram,
                   biased_data, patients, stats_i, prompts, figVars,
                   y_pts, x_pts, sizeVars, modeVars>>

InitCurves ==
    /\ patient_level_cv = TRUE
    /\ pc = "curves"
    /\ y_pts \in CurveInputs
    /\ x_pts = Abscissas(y_pts)
    /\ new_y_pts = <<>> /\ new_x_pts = <<>>
    /\ x_whole = <<>> /\ y_whole = <<>> /\ patients_whole = <<>>
    /\ num_patients_per_label = None /\ adjacent = FALSE
    /\ new_x = <<>> /\ new_y = <<>> /\ new_patients = <<>>
    /\ numpatients0 = 0 /\ numpatients1 = 0
    /\ PlanIdle
    /\ DrvIdle
    /\ GridIdle
    /\ logs = EmptyLogs /\ old_data = EmptyLogs
    /\ args_plot = FALSE /\ args_plot_slices = FALSE
    /\ args_plot_volume_histogram = FALSE
    /\ biased_data = FALSE /\ patients = {} /\ stats_i = 0 /\ prompts = {}
    /\ figures = {} /\ closed = {} /\ pdf_pages = <<>>
    /\ SizesIdle

NextCurves == TransformCurves

SpecCurves == InitCurves /\ [][NextCurves]_vars

(* the rows have one length *)
EqualRows(m) == \A i, k \in DOMAIN m : Len(m[i]) = Len(m[k])

(* list j holds element j of every row, in row order *)
Transposed(m) == [j \in 1..Len(m[1]) |-> [i \in 1..Len(m) |-> m[i][j]]]

(* C26: for rows of equal length the lists returned are the transpose of   *)
(* y_pts and of x_pts: one list per column, list j holding element j of    *)
(* every row in row order; [[1,2,3,4],[5,6,7,8]] gives                     *)
(* [[1,5],[2,6],[3,7],[4,8]].                                              *)
C26_Transposes ==
    (pc = "curves_done" /\ EqualRows(y_pts))
        => /\ new_y_pts = Transposed(y_pts)
           /\ new_x_pts = Transposed(x_pts)

(* What the function returns: one list more than the longest row has       *)
(* points; list j holds point j of every curve, the last point of the      *)
(* curve standing in for the points it lacks.                              *)
Padded(m) ==
    [j \in 1..(LastRow(m) + 1) |->
        [i \in 1..Len(m) |-> m[i][IF j <= Len(m[i]) THEN j ELSE Len(m[i])]]]

CurvesArePadded ==
    pc = "curves_done" => new_y_pts = Padded(y_pts) /\ new_x_pts = Padded(x_pts)

(* the example of the docstring has been transformed *)
ExampleTransformed == pc = "curves_done" /\ y_pts = ExampleCurves


(***************************************************************************)
(* The folds of do_cross_validation                                        *)
(***************************************************************************)
(* x_whole[a:b] as a set of sample indices *)
SampleRange(a, b) == {j \in 0..(NumSamples - 1) : a <= j /\ j < b}

(* lines 915-920: the test samples of the fold and its training samples *)
TestSamples == SampleRange(idx0, idx1)

TrainSamples == SampleRange(0, idx0) \cup SampleRange(idx1, NumSamples)

(* the mode and the input the tiling is stated for *)
TilingCase ==
    /\ func = "do_cross_validation"
    /\ patient_level_cv => num_patients >= num_folds

(* C27: the test ranges [idx0, idx1) of the folds tile the samples: the    *)
(* first starts at 0, each starts where the one before ended, the last     *)
(* ends at the number of samples, no fold raises, and the training set of  *)
(* a fold is the complement of its test range.                             *)
C27_FoldsTile ==
    [][(pc = "cv_fold" /\ fold < num_folds /\ TilingCase) =>
          /\ pc' = "cv_fold" /\ fold' = fold + 1
          /\ idx0' = (IF fold = 0 THEN 0 ELSE idx1)
          /\ idx0' <= idx1'
          /\ fold' = num_folds => idx1' = NumSamples
          /\ TestSamples' \cap TrainSamples' = {}
          /\ TestSamples' \cup TrainSamples' = 0..(NumSamples - 1)]_vars

(* slice-level folds of unequal sizes have all been cut *)
C27_Witness ==
    /\ func = "do_cross_validation" /\ pc = "cv_done"
    /\ ~patient_level_cv
    /\ num_folds >= 2
    /\ NumSamples % num_folds # 0
    /\ 0 < idx0 /\ idx0 < idx1 /\ idx1 = NumSamples

(* patient-level folds of whole patients have all been cut *)
C27_WitnessPatientLevel ==
    /\ func = "do_cross_validation" /\ pc = "cv_done"
    /\ patient_level_cv
    /\ num_folds >= 2 /\ num_patients > num_folds
    /\ NumSamples > num_patients
    /\ 0 < idx0 /\ idx0 < idx1 /\ idx1 = NumSamples


(***************************************************************************)
(* The greedy selection of reorder_maintaining_label_balance               *)
(***************************************************************************)
(* The labels of the units the selection runs over: of the samples when    *)
(* all ids are distinct (line 635), of the patients of np.unique otherwise *)
(* (lines 664-668).                                                        *)
UnitLabels ==
    LET unique_p == SortedSeq(Range(patients_whole))
    IN  IF Len(unique_p) = Len(patients_whole) THEN LabelColumn(y_whole)
        ELSE [j \in DOMAIN unique_p |-> PatientLabel(unique_p[j])[2]]

(* the selection after its first k steps *)
GreedyAfter(k) ==
    GreedyPicks(GreedyInit, 0, k, IndicesOf(UnitLabels, 0, 1), IndicesOf(UnitLabels, 1, 1),
                <<CountOf(UnitLabels, 0), CountOf(UnitLabels, 1)>>)

(* the function was called on two-column labels and the call is over *)
ReorderCallOver ==
    /\ pc \in {"reorder_done", "reorder_raised"}
    /\ \A i \in DOMAIN y_whole : Len(y_whole[i]) = 2

(* C28: the selection never takes a label whose patients are exhausted:    *)
(* with N0 and N1 patients of each label (either may be 0), after every    *)
(* step n0 <= N0 and n1 <= N1, no lookup idx_zeros[n0] or idx_ones[n1] is  *)
(* out of range, and the counters returned are n0 = N0 and n1 = N1.        *)
C28_NeverTakesExhaustedLabel ==
    ReorderCallOver =>
        LET N0 == CountOf(UnitLabels, 0)
            N1 == CountOf(UnitLabels, 1)
        IN  /\ \A k \in 0..Len(UnitLabels) :
                  /\ GreedyAfter(k).err = "none"
                  /\ GreedyAfter(k).n0 <= N0 /\ GreedyAfter(k).n1 <= N1
                  /\ GreedyAfter(k).n0 + GreedyAfter(k).n1 = k
            /\ err # "IndexError"
            /\ pc = "reorder_done" => numpatients0 = N0 /\ numpatients1 = N1

(* a dataset of several patients, all of label 1, has been reordered *)
C28_Witness ==
    /\ pc = "reorder_done"
    /\ numpatients0 = 0 /\ numpatients1 >= 2
    /\ Len(new_patients) > numpatients1

(* a dataset without label 1 has been reordered *)
C28_WitnessNoOnes ==
    /\ pc = "reorder_done"
    /\ numpatients1 = 0 /\ numpatients0 >= 2


(* C29: after every prefix of the ordering returned, with n0 and n1 the    *)
(* patients of label 0 and 1 in the prefix and N0, N1 the totals,          *)
(* |n0*N1 - n1*N0| <= (N0 + N1)/2: no prefix is further than half a        *)
(* patient from the global label ratio.                                    *)
C29_PrefixesBalanced ==
    pc = "reorder_done" =>
        \A k \in 0..Len(PlacedLabels) :
            2 * Deviation(PlacedBefore(k + 1, 0), PlacedBefore(k + 1, 1)) <= Len(PlacedLabels)

(* an ordering of both labels was returned in which some prefix is exactly *)
(* half a patient off and a later one is on the ratio                      *)
C29_Witness ==
    /\ pc = "reorder_done"
    /\ numpatients0 >= 2 /\ numpatients1 >= 2
    /\ \E k \in 1..(Len(PlacedLabels) - 1) :
          /\ 2 * Deviation(PlacedBefore(k + 1, 0), PlacedBefore(k + 1, 1)) = Len(PlacedLabels)
          /\ Deviation(PlacedBefore(k + 2, 0), PlacedBefore(k + 2, 1)) = 0


(***************************************************************************)
(* The training sizes built by main (lines 2234-2244)                      *)
(***************************************************************************)
(* Largest --size and --min_size, and the number of sizes after which a    *)
(* loop that does not end is cut off.                                      *)
MaxSize == 9
MaxMinSize == 5
MaxSizes == 6

(* line 2235 *)
DefaultSizes == <<16, 32, 64, 128, 256>>

(* Mutant: the loop runs while num < args.size. *)
WithinSizeStrict(n, size) == n < size

(* line 2241: while num <= args.size *)
WithinSize(n, size) == n <= size

(* lines 2235-2240: without --size the default sizes are kept; with it the *)
(* list starts empty and num at --min_size (at 16 were it None).           *)
SizeSetup ==
    /\ pc = "sizes"
    /\ IF args_size = None
       THEN /\ num_patient_tr' = DefaultSizes
            /\ num_patients_tr' = DefaultSizes
            /\ func' = "do_training_test"
            /\ pc' = "tt"
            /\ UNCHANGED num
       ELSE /\ num' = IF args_min_size # None THEN args_min_size ELSE DefaultSizes[1]
            /\ num_patient_tr' = <<>>
            /\ pc' = "sizes_loop"
            /\ UNCHANGED <<num_patients_tr, func>>
    /\ UNCHANGED <<capVars, num_patients, num_folds, folds_indices, fold, idx0, idx1,
                   num_patients_te, test_data, test_mask_spheres,
                   te_idx, te_t_idx, tr_idx, err,
                   corrections, step, num_times, aTr, attempts, model,
                   error_file, error_mark,
                   args_correction, do_cross_val, correction, grid, comb_i,
                   had_pdf, all_data_comb, all_data, trainer_calls, messages, pdf_files,
                   results_files, summary_file, location_exists, run, logVars,
                   args_plot, args_plot_slices, args_plot_volume_histogram,
                   biased_data, patients, stats_i, prompts, figVars, curveVars,
                   args_size, args_min_size, modeVars>>

(* One iteration of the loop of lines 2241-2243.  A loop that does not end *)
(* is followed for MaxSizes iterations.                                    *)
SizeLoop ==
    /\ pc = "sizes_loop"
    /\ WithinSize(num, args_size)
    /\ Len(num_patient_tr) < MaxSizes
    /\ num_patient_tr' = Append(num_patient_tr, num)
    /\ num' = num * 2
    /\ UNCHANGED <<pc, capVars, planVars, drvVars,
                   args_correction, do_cross_val, correction, grid, comb_i,
                   had_pdf, all_data_comb, all_data, trainer_calls, messages, pdf_files,
                   results_files, summary_file, location_exists, run, logVars,
                   args_plot, args_plot_slices, args_plot_volume_histogram,
                   biased_data, patients, stats_i, prompts, figVars, curveVars,
                   args_size, args_min_size, modeVars>>

(* The loop is left (line 2244) and the sizes are handed to                *)
(* do_training_test as num_patients_tr (lines 2296-2302).                  *)
SizeLoopExit ==
    /\ pc = "sizes_loop"
    /\ ~WithinSize(num, args_size)
    /\ num_patients_tr' = num_patient_tr
    /\ func' = "do_training_test"
    /\ pc' = "tt"
    /\ UNCHANGED <<capVars, num_patients, num_folds, folds_indices, fold, idx0, idx1,
                   num_patients_te, test_data, test_mask_spheres,
                   te_idx, te_t_idx, tr_idx, err,
                   corrections, step, num_times, aTr, attempts, model,
                   error_file, error_mark, gridVars, logVars,
                   args_plot, args_plot_slices, args_plot_volume_histogram,
                   biased_data, patients, stats_i, prompts, figVars, curveVars,
                   sizeVars, modeVars>>

(* Datasets as capped by --size: at most that many patients of each label. *)
SizeDatasets == {<<1>>, <<1, 2, 2, 3>>, <<1, 1, 2, 3, 4>>}

InitSizes ==
    /\ pc = "sizes"
    /\ args_size \in {None} \cup 0..MaxSize
    /\ args_min_size \in 0..MaxMinSize
    /\ num = 0
    /\ patients_whole \in SizeDatasets
    /\ args_size # None => Cardinality(Range(patients_whole)) <= 2 * args_size
    /\ num_patients = Cardinality(Range(patients_whole))
    /\ x_whole = <<>> /\ y_whole = <<>>
    /\ num_patients_per_label = args_size /\ adjacent = FALSE
    /\ new_x = <<>> /\ new_y = <<>> /\ new_patients = <<>>
    /\ numpatients0 = 0 /\ numpatients1 = 0
    /\ num_folds = 0 /\ folds_indices = <<>> /\ fold = 0 /\ idx0 = 0 /\ idx1 = 0
    /\ num_patients_te \in 0..1 /\ num_patients_tr = <<>>
    /\ test_data = <<>> /\ test_mask_spheres = FALSE
    /\ te_idx = 0 /\ te_t_idx = 0 /\ tr_idx = <<>> /\ err = "none"
    /\ DrvIdle
    /\ args_correction = FALSE /\ do_cross_val = FALSE /\ correction = <<>>
    /\ num_patient_tr = DefaultSizes /\ grid = <<>> /\ comb_i = 0 /\ had_pdf = FALSE
    /\ all_data_comb = NoResults /\ all_data = <<>> /\ trainer_calls = 0
    /\ messages = {} /\ pdf_files = {} /\ results_files = <<>>
    /\ summary_file = <<>> /\ location_exists = FALSE /\ run = 1
    /\ logs = EmptyLogs /\ old_data = EmptyLogs
    /\ args_plot = FALSE /\ args_plot_slices = FALSE
    /\ args_plot_volume_histogram = FALSE
    /\ biased_data = FALSE /\ patients = {} /\ stats_i = 0 /\ prompts = {}
    /\ figures = {} /\ closed = {} /\ pdf_pages = <<>>
    /\ CurvesIdle
    /\ patient_level_cv = TRUE

NextSizes == SizeSetup \/ SizeLoop \/ SizeLoopExit \/ TTPlan

SpecSizes == InitSizes /\ [][NextSizes]_vars

(* main is sequential: a step that can be taken is taken *)
SpecSizesLive == SpecSizes /\ WF_vars(NextSizes)

RECURSIVE Pow2(_)
Pow2(k) == IF k = 0 THEN 1 ELSE 2 * Pow2(k - 1)

(* --size is given with a --min_size of at least 1 *)
SizesRequested == args_size # None /\ args_min_size >= 1

(* the loop has been left *)
SizesBuilt == pc \in {"tt", "steps", "raised"}

(* C30: with --size S and --min_size m >= 1 the loop ends and leaves       *)
(* exactly m, 2m, 4m, ... up to the last value <= S, strictly increasing   *)
(* and non-empty when m <= S, so that num_patients_tr[0] in                *)
(* do_training_test is defined.                                            *)
C30_SizesTerminateDoubling ==
    /\ SizesRequested => <>SizesBuilt
    /\ []((SizesRequested /\ SizesBuilt) =>
            /\ \A k \in DOMAIN num_patient_tr :
                  /\ num_patient_tr[k] = args_min_size * Pow2(k - 1)
                  /\ num_patient_tr[k] <= args_size
                  /\ k > 1 => num_patient_tr[k - 1] < num_patient_tr[k]
            /\ args_min_size * Pow2(Len(num_patient_tr)) > args_size
            /\ num_patient_tr = SizeSequence(args_min_size, args_size)
            /\ args_min_size <= args_size =>
                  /\ Len(num_patient_tr) >= 1
                  /\ ~(pc = "raised" /\ err = "IndexError"))

(* four sizes were built and do_training_test has planned its steps from  *)
(* them                                                                    *)
C30_Witness ==
    /\ args_size = MaxSize /\ args_min_size = 1
    /\ num_patient_tr = <<1, 2, 4, 8>>
    /\ pc = "steps"

(* --min_size 0 never leaves the loop *)
ZeroMinSizeNeverEnds == (args_size # None /\ args_min_size = 0) => ~SizesBuilt

(* --min_size above --size leaves no size and the lookup raises *)
NoSizeRaises ==
    (SizesBuilt /\ args_size # None /\ args_min_size > args_size /\ pc # "tt")
        => pc = "raised" /\ err = "IndexError"

=============================================================================
